---- MODULE Spec2Model ----
(***************************************************************************)
(* A model of omnipose/core.py: the field solver (masks_to_flows,          *)
(* masks_to_flows_torch, _extend_centers_torch), the flow advector         *)
(* (follow_flows, steps2D, steps3D, steps_interp), the consistency filter  *)
(* (remove_bad_flow_masks, flow_error), the orchestrator compute_masks,    *)
(* the cleanup (fill_holes_and_remove_small_masks) and the instance        *)
(* reconstructor (get_masks).                                              *)
(*                                                                         *)
(* Arrays are functions over 0-based index sets, as in numpy.  Real        *)
(* numbers are exact rationals <<n, d>> in lowest terms with d > 0.        *)
(* The field solver is dimension-generic in the source; it is evaluated    *)
(* here on 1-D label images, where the Eikonal update, the means and the   *)
(* normalisation are all rational and the model is exact.  A 1-D group of  *)
(* neighbours has one opposite pair; update_torch is evaluated on its own  *)
(* on groups of several pairs, as they occur in 2-D and 3-D images.        *)
(***************************************************************************)
EXTENDS Integers, Sequences, FiniteSets, TLC

VARIABLES
    \* one call of the field solver
    fs_pc,      \* "idle", "call", "relax", "done", "raised"
    fs_entry,   \* "masks_to_flows" or "masks_to_flows_torch"
    fs_omni,    \* the omni flag
    fs_in,      \* the label image passed by the caller
    fs_masks,   \* the masks argument of masks_to_flows_torch
    fs_pad,     \* the reflect padding of masks_to_flows (0: none)
    fs_niter,   \* n_iter
    fs_t,       \* the loop counter of _extend_centers_torch
    fs_T,       \* T, over the zero-padded image
    fs_out,     \* the returned [mu, dist]
    fs_err      \* the exception raised, or "none"

VARIABLES
    \* one call of follow_flows
    adv_pc,     \* "idle", "call", "steps2D", "steps3D", "interp_gpu", "interp_cpu", "done"
    adv_shape,  \* dP.shape[1:]
    adv_dP0,    \* the flow field as passed to follow_flows
    adv_mask,   \* the mask argument: the set of its nonzero pixels
    adv_niter,  \* niter
    adv_interp, \* interp
    adv_gpu,    \* use_gpu and TORCH_ENABLED
    adv_omni,   \* omni
    adv_nan,    \* what the build's grid_sample returns at a NaN coordinate
    adv_inds,   \* inds: the pixels to advect, in scan order
    adv_p,      \* p: the position of every pixel of the grid
    adv_q,      \* steps_interp's working array (p, or pt normalised to [-1, 1])
    adv_dP,     \* the flow array the stepping function works on
    adv_dPt0,   \* steps_interp's momentum term dPt0
    adv_t,      \* the outer loop counter t
    adv_j,      \* the inner loop counter j of steps2D and steps3D
    adv_last    \* the updates of the current step: [t, from, disp] per point moved

VARIABLES
    \* remove_bad_flow_masks, applied once and then again to its own output
    filt_pc,    \* "idle", "call", "solving", "errors", "done", "raised"
    filt_pass,  \* 1: the first application, 2: the second
    filt_in,    \* the masks argument of the first application
    filt_masks, \* masks: the array the filter works on (in place)
    filt_flows, \* flows (dP_net)
    filt_thr,   \* threshold
    filt_omni,  \* omni
    filt_merr,  \* merrors, indexed from 1
    filt_out1,  \* what the first application returned
    filt_err    \* the exception raised, or "none"

filtVars == <<filt_pc, filt_pass, filt_in, filt_masks, filt_flows, filt_thr, filt_omni,
              filt_merr, filt_out1, filt_err>>

VARIABLES
    \* one call of compute_masks
    cm_pc,         \* "idle", "call", "preprocess", "advect", "reconstruct", "filter",
                   \* "unique", "resize", "cleanup", "renumber", "done", "raised"
    cm_shape,      \* the shape of dist and of the flow dP
    cm_dist,       \* dist: the potentials, raveled
    cm_omni,       \* omni
    cm_cluster,    \* cluster
    cm_resize,     \* resize: a shape, or None
    cm_flow_thr,   \* flow_threshold: a rational, or None
    cm_do_3D,      \* do_3D
    cm_min_size,   \* min_size
    cm_p_given,    \* whether p was passed in
    cm_p_in,       \* the values of the caller's array p at the call, or None
    cm_p_arr,      \* the values of the caller's array p now, or None
    cm_inds,       \* inds: a sequence of pixels, or None
    cm_mask,       \* mask: the foreground map, then the label image
    cm_mshape,     \* the shape of mask
    cm_dP_,        \* dP_: the preprocessed flow
    cm_p,          \* p
    cm_log,        \* the stages invoked so far, with their inputs and outputs
    cm_err         \* the exception raised, or "none"

cmVars == <<cm_pc, cm_shape, cm_dist, cm_omni, cm_cluster, cm_resize, cm_flow_thr,
            cm_do_3D, cm_min_size, cm_p_given, cm_p_in, cm_p_arr, cm_inds, cm_mask,
            cm_mshape, cm_dP_, cm_p, cm_log, cm_err>>

VARIABLES
    \* fill_holes_and_remove_small_masks on a 2-D label image, applied once
    \* and then again to its own output
    cln_pc,        \* "idle", "call", "loop", "done"
    cln_pass,      \* 1: the first application, 2: the second
    cln_in,        \* the masks argument of the first application (raveled)
    cln_min_size,  \* min_size
    cln_masks,     \* masks: the formatted array the loop works on (raveled)
    cln_slices,    \* slices = find_objects(masks)
    cln_i,         \* the loop index i
    cln_j,         \* j
    cln_out1       \* what the first application returned

clnVars == <<cln_pc, cln_pass, cln_in, cln_min_size, cln_masks, cln_slices, cln_i,
             cln_j, cln_out1>>

VARIABLES
    \* one call of get_masks on a one-row image
    rec_pc,        \* "idle", "call", "dbscan", "snap", "write", "skeleton", "done", "raised"
    rec_nclasses,  \* nclasses
    rec_cluster,   \* cluster
    rec_mask,      \* mask: the set of foreground pixels
    rec_dist,      \* dist
    rec_bd,        \* bd, or None
    rec_p,         \* p: the final position of every pixel (its coordinate in the row)
    rec_inds,      \* inds: the foreground pixels, in scan order
    rec_newinds,   \* newinds: the final positions of the points
    rec_d,         \* d: the diameter estimate
    rec_db,        \* db.labels_ as DBSCAN returned them
    rec_labels,    \* db.labels_ after the outliers were snapped
    rec_out,       \* the returned label image
    rec_err        \* the exception raised, or "none"

recVars == <<rec_pc, rec_nclasses, rec_cluster, rec_mask, rec_dist, rec_bd, rec_p,
             rec_inds, rec_newinds, rec_d, rec_db, rec_labels, rec_out, rec_err>>

VARIABLES
    \* one round trip of a label image through masks_to_flows, follow_flows
    \* and get_masks
    rt_pc,         \* "idle", "call", "solved", "advecting", "reconstructing"
    rt_in,         \* the label image: one image row
    rt_flow        \* what masks_to_flows returned for it

rtVars == <<rt_pc, rt_in, rt_flow>>

VARIABLES
    \* one call of update_torch on the pairs of one face-order group
    upd_pc,        \* "idle", "call", "done"
    upd_a,         \* a: the minimum of each opposite pair, one pixel
    upd_f2,        \* f**2: the face order of the group
    upd_sel        \* d, ad and rd as update_torch picked them

updVars == <<upd_pc, upd_a, upd_f2, upd_sel>>

advVars == <<adv_pc, adv_shape, adv_dP0, adv_mask, adv_niter, adv_interp, adv_gpu,
             adv_omni, adv_nan, adv_inds, adv_p, adv_q, adv_dP, adv_dPt0, adv_t,
             adv_j, adv_last>>

fsVars == <<fs_pc, fs_entry, fs_omni, fs_in, fs_masks, fs_pad, fs_niter, fs_t,
            fs_T, fs_out, fs_err>>

\* the variables each component leaves alone
fsOthers == <<advVars, filtVars, cmVars, clnVars, recVars, rtVars, updVars>>

advOthers == <<fsVars, filtVars, cmVars, clnVars, recVars, rtVars, updVars>>

filtOthers == <<fsVars, advVars, cmVars, clnVars, recVars, rtVars, updVars>>

cmOthers == <<fsVars, advVars, filtVars, clnVars, recVars, rtVars, updVars>>

clnOthers == <<fsVars, advVars, filtVars, cmVars, recVars, rtVars, updVars>>

recOthers == <<fsVars, advVars, filtVars, cmVars, clnVars, rtVars, updVars>>

\* a component that is not running
FS_Idle ==
    /\ fs_pc = "idle" /\ fs_entry = "none" /\ fs_omni = FALSE /\ fs_in = <<>>
    /\ fs_masks = <<>> /\ fs_pad = 0 /\ fs_niter = 0 /\ fs_t = 0 /\ fs_T = <<>>
    /\ fs_out = <<>> /\ fs_err = "none"

NoUpdate == [t |-> -1, from |-> <<>>, disp |-> <<>>]

Adv_Idle ==
    /\ adv_pc = "idle"
    /\ adv_shape = <<>>
    /\ adv_dP0 = <<>>
    /\ adv_mask = {}
    /\ adv_niter = 0
    /\ adv_interp = FALSE
    /\ adv_gpu = FALSE
    /\ adv_omni = FALSE
    /\ adv_nan = "nan"
    /\ adv_inds = <<>>
    /\ adv_p = <<>>
    /\ adv_q = <<>>
    /\ adv_dP = <<>>
    /\ adv_dPt0 = <<>>
    /\ adv_t = 0
    /\ adv_j = 0
    /\ adv_last = NoUpdate

Filt_Idle ==
    /\ filt_pc = "idle"
    /\ filt_pass = 0
    /\ filt_in = <<>>
    /\ filt_masks = <<>>
    /\ filt_flows = <<>>
    /\ filt_thr = <<0, 1>>
    /\ filt_omni = FALSE
    /\ filt_merr = <<>>
    /\ filt_out1 = <<>>
    /\ filt_err = "none"

\* Python's None
None == <<>>

Cln_Idle ==
    /\ cln_pc = "idle"
    /\ cln_pass = 0
    /\ cln_in = <<>>
    /\ cln_min_size = 0
    /\ cln_masks = <<>>
    /\ cln_slices = <<>>
    /\ cln_i = 0
    /\ cln_j = 0
    /\ cln_out1 = <<>>

RT_Idle == rt_pc = "idle" /\ rt_in = <<>> /\ rt_flow = <<>>

Upd_Idle == upd_pc = "idle" /\ upd_a = <<>> /\ upd_f2 = 0 /\ upd_sel = <<>>

Rec_Idle ==
    /\ rec_pc = "idle"
    /\ rec_nclasses = 0
    /\ rec_cluster = FALSE
    /\ rec_mask = {}
    /\ rec_dist = <<>>
    /\ rec_bd = None
    /\ rec_p = <<>>
    /\ rec_inds = <<>>
    /\ rec_newinds = <<>>
    /\ rec_d = <<0, 1>>
    /\ rec_db = <<>>
    /\ rec_labels = <<>>
    /\ rec_out = <<>>
    /\ rec_err = "none"

CM_Idle ==
    /\ cm_pc = "idle"
    /\ cm_shape = <<>>
    /\ cm_dist = <<>>
    /\ cm_omni = FALSE
    /\ cm_cluster = FALSE
    /\ cm_resize = None
    /\ cm_flow_thr = None
    /\ cm_do_3D = FALSE
    /\ cm_min_size = 0
    /\ cm_p_given = FALSE
    /\ cm_p_in = None
    /\ cm_p_arr = None
    /\ cm_inds = None
    /\ cm_mask = <<>>
    /\ cm_mshape = <<>>
    /\ cm_dP_ = <<>>
    /\ cm_p = <<>>
    /\ cm_log = <<>>
    /\ cm_err = "none"

-----------------------------------------------------------------------------
(* Exact rational arithmetic, with the values a floating-point division  *)
(* by zero gives: 1/0 and -1/0 for the infinities, 0/0 for NaN.            *)

Abs(x) == IF x < 0 THEN -x ELSE x

RECURSIVE GCD(_, _)
GCD(a, b) == IF b = 0 THEN a ELSE GCD(b, a % b)

\* 0/0 stands for NaN (the mean of an empty array, 0/0, 0*inf, inf-inf)
NaN == <<0, 0>>

IsNaN(x) == x[1] = 0 /\ x[2] = 0

RSign(x) == IF x[1] > 0 THEN 1 ELSE IF x[1] < 0 THEN -1 ELSE 0

Rat(n, d) ==
    IF d = 0 THEN <<RSign(<<n, 0>>), 0>>
    ELSE LET g == GCD(Abs(n), Abs(d))
             s == IF d < 0 THEN -1 ELSE 1
         IN  <<(s * n) \div g, (s * d) \div g>>

R(n) == <<n, 1>>

RAdd(x, y) ==
    IF x[2] = 0 \/ y[2] = 0
    THEN IF x[2] # 0 THEN y ELSE IF y[2] # 0 THEN x ELSE IF x = y THEN x ELSE NaN
    ELSE LET g == GCD(x[2], y[2])
             l == (x[2] \div g) * y[2]
         IN  Rat(x[1] * (l \div x[2]) + y[1] * (l \div y[2]), l)

RNeg(x) == <<-x[1], x[2]>>

RSub(x, y) == RAdd(x, RNeg(y))

RMul(x, y) ==
    IF x[2] = 0 \/ y[2] = 0 THEN <<RSign(x) * RSign(y), 0>>
    ELSE LET a == Rat(x[1], y[2])
             b == Rat(y[1], x[2])
         IN  <<a[1] * b[1], a[2] * b[2]>>

RDiv(x, y) == IF y[1] < 0 THEN RMul(x, <<-y[2], -y[1]>>) ELSE RMul(x, <<y[2], y[1]>>)

RLt(x, y) == RSign(RSub(x, y)) < 0

\* a comparison with NaN is false
RLe(x, y) ==
    IF x[2] = 0 \/ y[2] = 0 THEN ~IsNaN(x) /\ ~IsNaN(y) /\ (x = y \/ RLt(x, y))
    ELSE RSign(RSub(x, y)) <= 0

\* np.minimum, np.maximum and torch.clamp hand a NaN on
RMin(x, y) == IF IsNaN(x) THEN x ELSE IF IsNaN(y) THEN y ELSE IF RLe(x, y) THEN x ELSE y

RMax(x, y) == IF IsNaN(x) THEN x ELSE IF IsNaN(y) THEN y ELSE IF RLe(x, y) THEN y ELSE x

\* int(x): truncation towards zero
RInt(x) == IF x[1] >= 0 THEN x[1] \div x[2] ELSE -((-x[1]) \div x[2])

\* ceil(x)
RCeil(x) == -((-x[1]) \div x[2])

\* the exact square root of a rational that is a perfect square
ISqrt(n) == CHOOSE r \in 0..n : r * r = n

RSqrt(x) == <<ISqrt(x[1]), ISqrt(x[2])>>

RECURSIVE RSum(_, _)
RSum(f, S) ==
    IF S = {} THEN R(0)
    ELSE LET i == CHOOSE j \in S : TRUE IN RAdd(f[i], RSum(f, S \ {i}))

RECURSIVE ISum(_, _)
ISum(f, S) ==
    IF S = {} THEN 0
    ELSE LET i == CHOOSE j \in S : TRUE IN f[i] + ISum(f, S \ {i})

SetMax(S) == CHOOSE m \in S : \A x \in S : x <= m

SetMin(S) == CHOOSE m \in S : \A x \in S : m <= x

Size(f) == Cardinality(DOMAIN f)


\* the positions of S in scan order, as a 1-based sequence
RECURSIVE SortedSeq(_)
SortedSeq(S) ==
    IF S = {} THEN <<>>
    ELSE LET m == SetMin(S) IN <<m>> \o SortedSeq(S \ {m})

\* the function f on S, written out value by value
RECURSIVE Tabulate(_, _)
Tabulate(f, S) ==
    IF S = {} THEN <<>>
    ELSE LET i == CHOOSE j \in S : TRUE IN (i :> f[i]) @@ Tabulate(f, S \ {i})


-----------------------------------------------------------------------------
(* Library functions the field solver calls, on 1-D arrays.                *)

\* np.nonzero(f), in scan order
Nonzero(f) == SortedSeq({i \in DOMAIN f : f[i] # 0})

\* np.any(f)
np_any(f) == \E i \in DOMAIN f : f[i] # 0

\* fastremap.renumber: ids 1..K in order of first appearance, 0 kept
Renumber(m) ==
    LET ids == {m[j] : j \in DOMAIN m} \ {0}
        first(v) == SetMin({j \in DOMAIN m : m[j] = v})
    IN  [i \in DOMAIN m |->
            IF m[i] = 0 THEN 0
            ELSE Cardinality({v \in ids : first(v) <= first(m[i])})]

\* ncolor.format_labels: subtract the minimum, then renumber
format_labels(m) ==
    LET lo == SetMin({m[j] : j \in DOMAIN m})
    IN  Renumber([i \in DOMAIN m |-> m[i] - lo])

\* edt.edt (black_border=False): distance to the nearest pixel of another
\* label; the image border is no boundary
edt(m) ==
    [i \in DOMAIN m |->
        IF m[i] = 0 THEN 0
        ELSE LET lft == {k \in 1..i : m[i - k] # m[i]}
                 rgt == {k \in 1..(Size(m) - 1 - i) : m[i + k] # m[i]}
             IN  CASE lft # {} /\ rgt # {} ->
                        IF SetMin(lft) <= SetMin(rgt) THEN SetMin(lft) ELSE SetMin(rgt)
                   [] lft # {} /\ rgt = {} -> SetMin(lft)
                   [] lft = {} /\ rgt # {} -> SetMin(rgt)]

\* np.pad(f, 1): one zero on each side
ZeroPad(f) ==
    [i \in 0..(Size(f) + 1) |-> IF i = 0 \/ i = Size(f) + 1 THEN 0 ELSE f[i - 1]]

\* np.pad(f, pad, mode='reflect'): mirrored about the edge pixels, repeatedly
ReflectIdx(j, n) ==
    IF n = 1 THEN 0
    ELSE LET p == 2 * (n - 1)
             k == ((j % p) + p) % p
         IN  IF k < n THEN k ELSE p - k

ReflectPad(f, pad) ==
    [i \in 0..(Size(f) + 2 * pad - 1) |-> f[ReflectIdx(i - pad, Size(f))]]

\* f[slice(pad, -pad)]; slice(0, -0) is slice(0, 0), the empty slice
Unpad(f, pad) ==
    IF pad = 0 THEN <<>>
    ELSE [i \in 0..(Size(f) - 2 * pad - 1) |-> f[i + pad]]

-----------------------------------------------------------------------------
(* Section I of core.py: core utilities.                                   *)

\* get_niter(dists) = ceil(max(dists) * 1.16) + 1
get_niter(dists) ==
    RCeil(RMul(R(SetMax({dists[i] : i \in DOMAIN dists})), Rat(116, 100))) + 1

\* dist_to_diam(dt_pos, n) = 2 * (n + 1) * mean(dt_pos); dt_pos is the set of
\* positions whose distance is kept
dist_to_diam(dt, pos, n) ==
    IF pos = {} THEN NaN
    ELSE RMul(R(2 * (n + 1)), Rat(ISum(dt, pos), Cardinality(pos)))

\* diameters(masks): from the distances above dist_threshold = 0
diameters(masks) ==
    LET dt == edt(masks)
    IN  dist_to_diam(dt, {i \in DOMAIN dt : dt[i] > 0}, 1)

-----------------------------------------------------------------------------
(* Section II of core.py: the field solver.                                *)
(* A potential value is a record [ln, v]: v itself when ln is FALSE, and   *)
(* log(1 + v) when ln is TRUE (the point-source mode's final compression). *)
(* A raw flow value is a record [hi, lo, ln]: (g(hi) - g(lo)) / 2 with g   *)
(* the identity or log(1 + .) as ln says.                                  *)

PZero == [ln |-> FALSE, v |-> R(0)]

\* torch.log(1. + x)
Log1p(x) == IF x = R(0) THEN PZero ELSE [ln |-> TRUE, v |-> x]

\* steps = cartesian([[-1,0,1]] * d), d = 1
steps == <<-1, 0, 1>>

\* idx = (3**d)//2, the stencil index of the centre (1-based here)
CenterIdx == (Len(steps) + 1) \div 2

\* sign = np.sum(np.abs(steps),axis=1); uniq = fastremap.unique(sign)
sign(k) == Abs(steps[k])

uniq == SortedSeq({sign(k) : k \in 1..Len(steps)})

\* inds = [np.where(sign==i)[0] for i in uniq]
inds(o) == SortedSeq({k \in 1..Len(steps) : sign(k) = o})

\* neighbors: the grid position of stencil entry k around pixel i
neighbors(i, k) == i + steps[k]

\* a neighbour counts iff it carries the centre's label
isneighbor_any(G, i, k) == G[neighbors(i, k)] # 0

isneighbor(G, i, k) == G[neighbors(i, k)] = G[i]

\* a gather without the neighbour validator
Tneigh_unmasked(G, T, i, k) == T[neighbors(i, k)]

\* Tneigh = T[pt] * isneigh, for pixel i
Tneigh(G, T, i, k) == IF isneighbor(G, i, k) THEN T[neighbors(i, k)] ELSE R(0)

\* sum_a = torch.cumsum(a,dim=0), row k
sum_a(a, k) == RSum(a, 1..k)

\* radicand = sum_a**2-d*(sum_a2-f**2), row k
radicand(a, f2, k) ==
    LET sum_a2 == RSum([j \in 1..Len(a) |-> RMul(a[j], a[j])], 1..k)
    IN  RSub(RMul(sum_a(a, k), sum_a(a, k)), RMul(R(k), RSub(sum_a2, R(f2))))

\* a selection that always takes every pair of the group
update_select_all(a, f2) ==
    [d |-> Len(a), ad |-> sum_a(a, Len(a)), rd |-> radicand(a, f2, Len(a))]

\* d = torch.count_nonzero(mask,dim=0), ad = sum_a[d-1,r] and
\* rd = radicand[d-1,r]; the index -1 is the last row
update_select(a, f2) ==
    LET d == Cardinality({k \in 1..Len(a) : RSign(radicand(a, f2, k)) >= 0})
        row == IF d = 0 THEN Len(a) ELSE d
    IN  [d |-> d, ad |-> sum_a(a, row), rd |-> radicand(a, f2, row)]

\* update_torch(a, f); f2 is f**2.  1/0 is inf and the square root of a
\* negative number is nan, and inf*nan is nan
update_torch(a, f2) ==
    LET s == update_select(a, f2)
    IN  IF s.d = 0 \/ RSign(s.rd) < 0 THEN NaN
        ELSE RMul(Rat(1, s.d), RAdd(s.ad, RSqrt(s.rd)))

\* eikonal_update_torch, for pixel i; phi_total ** (1/d) with d = 1
eikonal_update_torch(G, T, i) ==
    LET phi(o) ==
            LET ind == inds(o)
                mins == [j \in 1..(Len(ind) \div 2) |->
                            RMin(Tneigh(G, T, i, ind[j]),
                                 Tneigh(G, T, i, ind[Len(ind) - j + 1]))]
            IN  update_torch(mins, o)
    IN  phi(uniq[2])

\* centers, point-source mode: the truncated centre of mass of each label of
\* the padded image, or, when that is not inside the label, the pixel
\* np.argmin(np.sum((coords-meds)**2,axis=0)) with meds = np.median(coords,
\* axis=0), which for one axis is the first pixel of the label
centers_of(G) ==
    LET K == SetMax({G[i] : i \in DOMAIN G})
        px(l) == {i \in DOMAIN G : G[i] = l}
        com(l) == RInt(Rat(ISum([i \in DOMAIN G |-> i], px(l)), Cardinality(px(l))))
    IN  {IF G[com(l)] = l THEN com(l) ELSE SetMin(px(l)) : l \in 1..K}

\* n_iter, point-source mode: 2 * max over labels of sum(stop - start + 1)
ext_niter(masks) ==
    LET K == SetMax({masks[i] : i \in DOMAIN masks})
        px(l) == {i \in DOMAIN masks : masks[i] = l}
    IN  2 * SetMax({SetMax(px(l)) + 1 - SetMin(px(l)) + 1 : l \in 1..K})

\* a box relaxation that divides by the number of same-instance cells and
\* increments the centres afterwards
relax_heat_counted(G, T, centers) ==
    LET mean(i) ==
            LET nb == {k \in 1..Len(steps) : isneighbor(G, i, k)}
            IN  RDiv(RSum([k \in 1..Len(steps) |-> Tneigh(G, T, i, k)], 1..Len(steps)),
                     R(Cardinality(nb)))
    IN  [i \in DOMAIN G |->
            IF G[i] = 0 THEN T[i]
            ELSE IF i \in centers THEN RAdd(mean(i), R(1)) ELSE mean(i)]

\* one pass of the loop body of _extend_centers_torch
relax_heat(G, T, centers) ==
    LET T1 == [q \in DOMAIN G |-> IF q \in centers THEN RAdd(T[q], R(1)) ELSE T[q]]
    IN  [i \in DOMAIN G |->
            IF G[i] = 0 THEN T1[i]
            ELSE RDiv(RSum([k \in 1..Len(steps) |-> Tneigh(G, T1, i, k)], 1..Len(steps)),
                      R(Len(steps)))]

relax_eikonal(G, T) ==
    [i \in DOMAIN G |-> IF G[i] = 0 THEN T[i] ELSE eikonal_update_torch(G, T, i)]

\* the loop body as a per-pixel sweep that writes into T while it reads it:
\* what the loop would do without the gather T[neigh_pix] into a new tensor
RECURSIVE sweep_in_place(_, _, _, _)
sweep_in_place(G, T, omni, i) ==
    IF i \notin DOMAIN G THEN T
    ELSE IF G[i] = 0 THEN sweep_in_place(G, T, omni, i + 1)
    ELSE LET v == IF omni THEN eikonal_update_torch(G, T, i)
                  ELSE RDiv(RSum([k \in 1..Len(steps) |-> Tneigh(G, T, i, k)],
                                 1..Len(steps)),
                            R(Len(steps)))
         IN  sweep_in_place(G, [T EXCEPT ![i] = v], omni, i + 1)

RelaxInPlace(G, T, centers, omni) ==
    LET T1 == [q \in DOMAIN G |->
                 IF ~omni /\ q \in centers THEN RAdd(T[q], R(1)) ELSE T[q]]
    IN  sweep_in_place(G, T1, omni, 0)

RelaxOnce(G, T, centers, omni) ==
    IF omni THEN relax_eikonal(G, T) ELSE relax_heat(G, T, centers)

\* n passes of the loop, each on the array the previous one left
RECURSIVE Relaxed(_, _, _, _, _)
Relaxed(G, T, centers, omni, n) ==
    IF n <= 0 THEN T
    ELSE Relaxed(G, Tabulate(RelaxOnce(G, T, centers, omni), DOMAIN G), centers, omni, n - 1)

\* the end of _extend_centers_torch: T = log(1 + T) unless omni
final_T(T, omni) ==
    [i \in DOMAIN T |-> IF omni THEN [ln |-> FALSE, v |-> T[i]] ELSE Log1p(T[i])]

\* grads = T[cardinal_points] * mask and mu_torch, for the k-th point; T is
\* the potential before the final log, which the record's ln flag stands for
mu_torch(G, T, omni) ==
    LET pts == Nonzero(G)
        ind == inds(uniq[2])
        grads(i, j) == Tneigh(G, T, i, ind[j])
    IN  [k \in 1..Len(pts) |->
            [hi |-> grads(pts[k], Len(ind)), lo |-> grads(pts[k], 1), ln |-> ~omni]]

\* utils.normalize_field on a one-component field: mu / |mu|, and 0 where
\* |mu| = 0; log(1 + .) is increasing, so the sign is that of hi - lo
normalize_field(mu) ==
    [k \in DOMAIN mu |-> R(RSign(RSub(mu[k].hi, mu[k].lo)))]

\* a scatter that indexes with the coordinates of the padded image
scatter_padded(masks, mu) ==
    LET nz == Nonzero(ZeroPad(masks))
    IN  [i \in DOMAIN masks |->
            IF ZeroPad(masks)[i] = 0 THEN R(0)
            ELSE mu[CHOOSE k \in 1..Len(nz) : nz[k] = i]]

\* mu0 = np.zeros(...); mu0[np.nonzero(masks)] = mu

scatter(masks, mu) ==
    LET nz == Nonzero(masks)
    IN  [i \in DOMAIN masks |->
            IF masks[i] = 0 THEN R(0)
            ELSE mu[CHOOSE k \in 1..Len(nz) : nz[k] = i]]


\* everything of masks_to_flows_torch after the diffusion loop
torch_tail(masks, T, omni) ==
    LET G == ZeroPad(masks)
    IN  [mu   |-> scatter(masks, normalize_field(mu_torch(G, T, omni))),
         dist |-> Unpad(final_T(T, omni), 1)]

\* its early exit: np.zeros((masks.ndim,)+masks.shape), np.zeros(masks.shape)
torch_zeros(masks) ==
    [mu |-> [i \in DOMAIN masks |-> R(0)], dist |-> [i \in DOMAIN masks |-> PZero]]

torch_niter(masks, dists, omni) ==
    IF omni THEN get_niter(dists) ELSE ext_niter(masks)

torch_centers(masks, omni) ==
    IF omni THEN {} ELSE centers_of(ZeroPad(masks))

masks_to_flows_torch(masks, dists, omni) ==
    IF np_any(masks)
    THEN LET G == ZeroPad(masks)
             T == Relaxed(G, [i \in DOMAIN G |-> R(0)], torch_centers(masks, omni),
                          omni, torch_niter(masks, dists, omni))
         IN  torch_tail(masks, T, omni)
    ELSE torch_zeros(masks)

\* the return of masks_to_flows: T[unpad], mu[(Ellipsis,)+unpad] when omni
mtf_tail(out, reflect, pad) ==
    IF reflect THEN [mu |-> Unpad(out.mu, pad), dist |-> Unpad(out.dist, pad)]
    ELSE out

\* masks_to_flows with dists=None, as one function: [err, mu, dist]
masks_to_flows(masks0, omni) ==
    LET masks == format_labels(masks0)
        dists == edt(masks)
        diam  == diameters(masks)
    IN  IF omni
        THEN IF IsNaN(diam)
             THEN [err |-> "ValueError", mu |-> <<>>, dist |-> <<>>]
             ELSE LET pad == RInt(diam)
                      out == mtf_tail(masks_to_flows_torch(ReflectPad(masks, pad),
                                          ReflectPad(dists, pad), omni), TRUE, pad)
                  IN  [err |-> "none", mu |-> out.mu, dist |-> out.dist]
        ELSE LET out == masks_to_flows_torch(masks, dists, omni)
             IN  [err |-> "none", mu |-> out.mu, dist |-> out.dist]

-----------------------------------------------------------------------------
(* The field solver as a state machine: one call, one relaxation pass per  *)
(* step.                                                                   *)

FS_Width == 4

FS_Labels == 0..2

FS_Images == [0..(FS_Width - 1) -> FS_Labels]

FS_Entries == {"masks_to_flows", "masks_to_flows_torch"}

FS_Reflect == fs_entry = "masks_to_flows" /\ fs_omni

\* masks_to_flows_torch is called with labels in standard form
FS_Init ==
    /\ fs_pc = "call"
    /\ fs_entry \in FS_Entries
    /\ fs_omni \in BOOLEAN
    /\ fs_in \in FS_Images
    /\ fs_entry = "masks_to_flows_torch" => fs_in = format_labels(fs_in)
    /\ fs_masks = <<>> /\ fs_pad = 0 /\ fs_niter = 0 /\ fs_t = 0 /\ fs_T = <<>>
    /\ fs_out = <<>> /\ fs_err = "none"
    /\ Adv_Idle
    /\ Filt_Idle
    /\ CM_Idle
    /\ Cln_Idle
    /\ Rec_Idle
    /\ RT_Idle
    /\ Upd_Idle

\* masks_to_flows up to the call of _extend_centers_torch
FS_Enter ==
    /\ fs_pc = "call"
    /\ LET lab  == IF fs_entry = "masks_to_flows" THEN format_labels(fs_in) ELSE fs_in
           diam == diameters(lab)
       IN  IF FS_Reflect /\ IsNaN(diam)
           THEN /\ fs_pc' = "raised"
                /\ fs_err' = "ValueError"
                /\ UNCHANGED <<fs_masks, fs_pad, fs_niter, fs_t, fs_T, fs_out>>
           ELSE LET pad == IF FS_Reflect THEN RInt(diam) ELSE 0
                    m   == IF FS_Reflect THEN ReflectPad(lab, pad) ELSE lab
                    d   == IF FS_Reflect THEN ReflectPad(edt(lab), pad) ELSE edt(lab)
                IN  /\ fs_masks' = m
                    /\ fs_pad' = pad
                    /\ fs_err' = "none"
                    /\ IF np_any(m)
                       THEN /\ fs_pc' = "relax"
                            /\ fs_niter' = torch_niter(m, d, fs_omni)
                            /\ fs_t' = 0
                            /\ fs_T' = [i \in DOMAIN ZeroPad(m) |-> R(0)]
                            /\ fs_out' = <<>>
                       ELSE /\ fs_pc' = "done"
                            /\ fs_out' = mtf_tail(torch_zeros(m), FS_Reflect, pad)
                            /\ UNCHANGED <<fs_niter, fs_t, fs_T>>
    /\ UNCHANGED <<fs_entry, fs_omni, fs_in>>
    /\ UNCHANGED fsOthers

\* one iteration of "for t in range(n_iter)"
FS_Relax ==
    /\ fs_pc = "relax"
    /\ fs_t < fs_niter
    /\ fs_T' = RelaxOnce(ZeroPad(fs_masks), fs_T, torch_centers(fs_masks, fs_omni), fs_omni)
    /\ fs_t' = fs_t + 1
    /\ UNCHANGED <<fs_pc, fs_entry, fs_omni, fs_in, fs_masks, fs_pad, fs_niter,
                   fs_out, fs_err>>
    /\ UNCHANGED fsOthers

\* after the loop: gradient, normalisation, scatter, unpadding, return
FS_Finish ==
    /\ fs_pc = "relax"
    /\ fs_t >= fs_niter
    /\ fs_out' = mtf_tail(torch_tail(fs_masks, fs_T, fs_omni), FS_Reflect, fs_pad)
    /\ fs_pc' = "done"
    /\ UNCHANGED <<fs_entry, fs_omni, fs_in, fs_masks, fs_pad, fs_niter, fs_t,
                   fs_T, fs_err>>
    /\ UNCHANGED fsOthers

-----------------------------------------------------------------------------
(* Section II of core.py, mask reconstruction: the flow advector.          *)
(* A pixel is a tuple of d indices, a position a tuple of d rationals, a   *)
(* flow field a function from pixels to tuples of d rationals.             *)

\* floor(x)
RFloor(x) == x[1] \div x[2]

Pixels(shape) ==
    IF Len(shape) = 2
    THEN {<<y, x>> : y \in 0..(shape[1] - 1), x \in 0..(shape[2] - 1)}
    ELSE {<<z, y, x>> : z \in 0..(shape[1] - 1), y \in 0..(shape[2] - 1),
                        x \in 0..(shape[3] - 1)}

\* the index of a pixel in scan (C) order
RECURSIVE Ravel(_, _)
Ravel(pix, shape) ==
    IF Len(pix) = 0 THEN 0
    ELSE Ravel(SubSeq(pix, 1, Len(pix) - 1), SubSeq(shape, 1, Len(shape) - 1))
             * shape[Len(shape)] + pix[Len(pix)]

\* np.array(np.nonzero(mask)).T: the pixels of S in scan order
RECURSIVE ScanOrder(_, _)
ScanOrder(S, shape) ==
    IF S = {} THEN <<>>
    ELSE LET m == CHOOSE a \in S : \A b \in S : Ravel(a, shape) <= Ravel(b, shape)
         IN  <<m>> \o ScanOrder(S \ {m}, shape)

\* p = np.meshgrid(*grid, indexing='ij'): every pixel at its own centre
meshgrid(shape) == [pix \in Pixels(shape) |-> [k \in 1..Len(shape) |-> R(pix[k])]]

\* step_factor(t)
step_factor(t) == 1 + t

\* int(p[k,...]) per axis: the cell a position lies in
cell_of(pos) == [k \in 1..Len(pos) |-> RInt(pos[k])]

\* min(shape[k]-1, max(0, x))
clamp(x, size) == RMin(R(size - 1), RMax(R(0), x))

vec_add(a, b) == [k \in 1..Len(a) |-> RAdd(a[k], b[k])]

vec_scale(a, c) == [k \in 1..Len(a) |-> RMul(a[k], c)]

clamp_pos(pos, shape) == [k \in 1..Len(pos) |-> clamp(pos[k], shape[k])]

\* map_coordinates(I, yc, xc, Y) for one point: bilinear interpolation with
\* the corner indices clipped to the grid
map_coordinates(I, shape, pos) ==
    LET yfl == RInt(pos[1])
        xfl == RInt(pos[2])
        y   == RSub(pos[1], R(yfl))
        x   == RSub(pos[2], R(xfl))
        yf  == IF yfl < 0 THEN 0 ELSE IF yfl > shape[1] - 1 THEN shape[1] - 1 ELSE yfl
        xf  == IF xfl < 0 THEN 0 ELSE IF xfl > shape[2] - 1 THEN shape[2] - 1 ELSE xfl
        yf1 == IF yf + 1 > shape[1] - 1 THEN shape[1] - 1 ELSE yf + 1
        xf1 == IF xf + 1 > shape[2] - 1 THEN shape[2] - 1 ELSE xf + 1
        one == R(1)
        w(a, b, c) == RMul(RMul(a, b), c)
    IN  [c \in 1..2 |->
            RAdd(RAdd(w(I[<<yf, xf>>][c], RSub(one, y), RSub(one, x)),
                      w(I[<<yf, xf1>>][c], RSub(one, y), x)),
                 RAdd(w(I[<<yf1, xf>>][c], y, RSub(one, x)),
                      w(I[<<yf1, xf1>>][c], y, x)))]

\* torch.nn.functional.grid_sample(im, pt, align_corners=False), bilinear,
\* zero padding, for one point of a 2-D field.  pt is (x, y) in [-1, 1]; im
\* is indexed by pixel <<y, x>> and holds (x, y) components.  What it returns
\* at a point with a NaN coordinate depends on the build, nan_mode: NaN in
\* every channel (the NaN goes through the interpolation weights), 0 in
\* every channel (no corner passes the bounds test), or the sample with the
\* NaN read as -1 (the note in the documentation of grid_sample)
GridNaNModes == {"nan", "zero", "minus_one"}

grid_sample(im, shape, pt, nan_mode) ==
  IF (IsNaN(pt[1]) \/ IsNaN(pt[2])) /\ nan_mode = "nan" THEN <<NaN, NaN>>
  ELSE IF (IsNaN(pt[1]) \/ IsNaN(pt[2])) /\ nan_mode = "zero" THEN <<R(0), R(0)>>
  ELSE
    LET gx  == IF IsNaN(pt[1]) THEN R(-1) ELSE pt[1]
        gy  == IF IsNaN(pt[2]) THEN R(-1) ELSE pt[2]
        ix  == RSub(RDiv(RMul(RAdd(gx, R(1)), R(shape[2])), R(2)), Rat(1, 2))
        iy  == RSub(RDiv(RMul(RAdd(gy, R(1)), R(shape[1])), R(2)), Rat(1, 2))
        x0  == RFloor(ix)
        y0  == RFloor(iy)
        fx  == RSub(ix, R(x0))
        fy  == RSub(iy, R(y0))
        val(yy, xx, c) ==
            IF yy < 0 \/ yy > shape[1] - 1 \/ xx < 0 \/ xx > shape[2] - 1 THEN R(0)
            ELSE im[<<yy, xx>>][c]
        one == R(1)
    IN  [c \in 1..2 |->
            RAdd(RAdd(RMul(val(y0, x0, c), RMul(RSub(one, fy), RSub(one, fx))),
                      RMul(val(y0, x0 + 1, c), RMul(RSub(one, fy), fx))),
                 RAdd(RMul(val(y0 + 1, x0, c), RMul(fy, RSub(one, fx))),
                      RMul(val(y0 + 1, x0 + 1, c), RMul(fy, fx))))]

\* steps_interp, GPU branch: pt = p[inds].T / (shape - 1) * 2 - 1, axes flipped.
\* On an axis of extent 1 shape - 1 is 0. and the coordinate becomes 0/0
gpu_normalize(pos, shape) ==
    <<RSub(RMul(RDiv(pos[2], R(shape[2] - 1)), R(2)), R(1)),
      RSub(RMul(RDiv(pos[1], R(shape[1] - 1)), R(2)), R(1))>>

\* im = dP[inds], im[:,k] *= 2/shape[k]; 2./0. is inf for the NumPy scalar
gpu_image(dP, shape) ==
    [pix \in DOMAIN dP |->
        <<RMul(dP[pix][2], Rat(2, shape[2] - 1)), RMul(dP[pix][1], Rat(2, shape[1] - 1))>>]

\* pt = (pt+1)*0.5; pt[...,k] *= shape[k]; p = pt[...,inds]
gpu_denormalize(pt, shape) ==
    <<RMul(RMul(RAdd(pt[2], R(1)), Rat(1, 2)), R(shape[1] - 1)),
      RMul(RMul(RAdd(pt[1], R(1)), Rat(1, 2)), R(shape[2] - 1))>>

\* torch.clamp(x, -1., 1.)
clamp_unit(x) == RMin(R(1), RMax(R(-1), x))


\* follow_flows returns at once below this many points
MinPoints == 5

\* inds when it is not passed in
default_inds(dP, mask, shape, omni) ==
    IF omni
    THEN ScanOrder(mask, shape)
    ELSE ScanOrder({pix \in DOMAIN dP : RLt(Rat(1, 1000), <<Abs(dP[pix][1][1]), dP[pix][1][2]>>)},
                   shape)

\* the bounds of the advector's inputs
AdvMaxIter == 3

\* the length of the one-row grid: follow_flows needs MinPoints points to step
AdvRowLen == MinPoints

AdvShapes == {<<2, 3>>, <<1, AdvRowLen>>, <<1, 2, 3>>}

\* one axis of a flow field: the component along axis k at index i is
\* a/b + c*i for the pattern <<a, b, c>>
AdvPatterns == {<<0, 1, 0>>, <<1, 2, 0>>, <<-3, 2, 0>>, <<1, 1, -1>>}

AdvField(shape, pat) ==
    [pix \in Pixels(shape) |->
        [k \in 1..Len(shape) |-> RAdd(Rat(pat[k][1], pat[k][2]), R(pat[k][3] * pix[k]))]]

NumPixels(shape) == Cardinality(Pixels(shape))

\* a mask: the first n pixels of the grid in scan order
AdvMask(shape, n) == {pix \in Pixels(shape) : Ravel(pix, shape) < n}

\* a call follow_flows(dP, mask=mask, niter=niter, interp=..., use_gpu=...,
\* omni=...); interpolation is only available in 2D.  The build's reading of
\* NaN coordinates matters only on the GPU branch on a grid with an axis of
\* extent 1, and is fixed otherwise.  The GPU branch is
\* followed for one step less: the denominators of its positions square at
\* every step
Adv_Init ==
    /\ adv_pc = "call"
    /\ adv_shape \in AdvShapes
    /\ \E pat \in [1..Len(adv_shape) -> AdvPatterns] : adv_dP0 = AdvField(adv_shape, pat)
    /\ \E n \in {MinPoints - 1, MinPoints, NumPixels(adv_shape)} :
           adv_mask = AdvMask(adv_shape, n)
    /\ adv_niter \in 0..AdvMaxIter
    /\ adv_interp \in BOOLEAN
    /\ adv_gpu \in BOOLEAN
    /\ adv_omni \in BOOLEAN
    /\ adv_interp => Len(adv_shape) = 2
    /\ adv_gpu => adv_interp
    /\ adv_gpu => adv_niter < AdvMaxIter
    /\ adv_nan \in GridNaNModes
    /\ (\A k \in 1..Len(adv_shape) : ~adv_gpu \/ adv_shape[k] > 1) => adv_nan = "nan"
    /\ adv_inds = <<>>
    /\ adv_p = <<>>
    /\ adv_q = <<>>
    /\ adv_dP = <<>>
    /\ adv_dPt0 = <<>>
    /\ adv_t = 0
    /\ adv_j = 0
    /\ adv_last = NoUpdate
    /\ FS_Idle
    /\ Filt_Idle
    /\ CM_Idle
    /\ Cln_Idle
    /\ Rec_Idle
    /\ RT_Idle
    /\ Upd_Idle

advInputs == <<adv_shape, adv_dP0, adv_mask, adv_niter, adv_interp, adv_gpu, adv_omni,
               adv_nan>>

\* follow_flows up to the call of the stepping function
follow_flows_enter ==
    /\ adv_pc = "call"
    /\ LET p    == meshgrid(adv_shape)
           ix == default_inds(adv_dP0, adv_mask, adv_shape, adv_omni)
           im   == gpu_image(adv_dP0, adv_shape)
           pt   == [j \in 1..Len(ix) |-> gpu_normalize(p[ix[j]], adv_shape)]
       IN  /\ adv_p' = p
           /\ adv_inds' = ix
           /\ IF Len(ix) < MinPoints
              THEN /\ adv_pc' = "done"
                   /\ adv_q' = <<>>
                   /\ adv_dP' = <<>>
                   /\ adv_dPt0' = <<>>
              ELSE IF ~adv_interp
              THEN /\ adv_pc' = IF Len(adv_shape) = 2 THEN "steps2D" ELSE "steps3D"
                   /\ adv_q' = <<>>
                   /\ adv_dP' = adv_dP0
                   /\ adv_dPt0' = <<>>
              ELSE IF adv_gpu
              THEN /\ adv_pc' = "interp_gpu"
                   /\ adv_q' = pt
                   /\ adv_dP' = im
                   /\ adv_dPt0' = IF adv_omni
                                  THEN [j \in 1..Len(ix) |-> grid_sample(im, adv_shape, pt[j], adv_nan)]
                                  ELSE <<>>
              ELSE /\ adv_pc' = "interp_cpu"
                   /\ adv_q' = [j \in 1..Len(ix) |-> p[ix[j]]]
                   /\ adv_dP' = adv_dP0
                   /\ adv_dPt0' = <<>>
    /\ UNCHANGED <<advInputs, adv_t, adv_j, adv_last>>
    /\ UNCHANGED advOthers

\* the loop counters of steps2D and steps3D after the body for point j
advance_counters ==
    IF adv_j + 1 < Len(adv_inds)
    THEN adv_j' = adv_j + 1 /\ adv_t' = adv_t
    ELSE adv_j' = 0 /\ adv_t' = adv_t + 1

\* the updates of the sweep t so far, with that of point j added
sweep_update(cur, step) ==
    IF adv_j = 0
    THEN [t |-> adv_t, from |-> 1 :> cur, disp |-> 1 :> step]
    ELSE [t |-> adv_t, from |-> adv_last.from @@ ((adv_j + 1) :> cur),
          disp |-> adv_last.disp @@ ((adv_j + 1) :> step)]

\* steps2D: the body of "for j in range(inds.shape[0])".  step is a view of
\* dP, so "step /= step_factor(t)" writes the divided value back into dP
steps2D ==
    /\ adv_pc = "steps2D"
    /\ adv_t < adv_niter
    /\ LET pix  == adv_inds[adv_j + 1]
           cur  == adv_p[pix]
           cell == cell_of(cur)
           step == IF adv_omni
                   THEN vec_scale(adv_dP[cell], Rat(1, step_factor(adv_t)))
                   ELSE adv_dP[cell]
       IN  /\ adv_dP' = [adv_dP EXCEPT ![cell] = step]
           /\ adv_p' = [adv_p EXCEPT ![pix] = clamp_pos(vec_add(cur, step), adv_shape)]
           /\ adv_last' = sweep_update(cur, step)
    /\ advance_counters
    /\ UNCHANGED <<advInputs, adv_pc, adv_inds, adv_q, adv_dPt0>>
    /\ UNCHANGED advOthers

\* steps3D: the body of "for j in range(inds.shape[0])"
steps3D ==
    /\ adv_pc = "steps3D"
    /\ adv_t < adv_niter
    /\ LET pix  == adv_inds[adv_j + 1]
           cur  == adv_p[pix]
           step == adv_dP[cell_of(cur)]
       IN  /\ adv_p' = [adv_p EXCEPT ![pix] = clamp_pos(vec_add(cur, step), adv_shape)]
           /\ adv_last' = sweep_update(cur, step)
    /\ advance_counters
    /\ UNCHANGED <<advInputs, adv_pc, adv_inds, adv_q, adv_dP, adv_dPt0>>
    /\ UNCHANGED advOthers

\* steps_interp on the GPU: one iteration of "for t in range(niter)"
steps_interp_gpu ==
    /\ adv_pc = "interp_gpu"
    /\ adv_t < adv_niter
    /\ LET J     == 1..Len(adv_inds)
           raw   == [j \in J |-> grid_sample(adv_dP, adv_shape, adv_q[j], adv_nan)]
           blend == [j \in J |-> vec_scale(vec_add(raw[j], adv_dPt0[j]), Rat(1, 2))]
           dPt   == IF adv_omni
                    THEN [j \in J |-> vec_scale(blend[j], Rat(1, step_factor(adv_t)))]
                    ELSE raw
       IN  /\ adv_dPt0' = IF adv_omni THEN blend ELSE adv_dPt0
           /\ adv_q' = [j \in J |-> [k \in 1..2 |-> clamp_unit(RAdd(adv_q[j][k], dPt[j][k]))]]
           /\ adv_last' =
                  [t    |-> adv_t,
                   from |-> [j \in J |-> gpu_denormalize(adv_q[j], adv_shape)],
                   disp |-> [j \in J |->
                               <<RMul(dPt[j][2], Rat(adv_shape[1] - 1, 2)),
                                 RMul(dPt[j][1], Rat(adv_shape[2] - 1, 2))>>]]
    /\ adv_t' = adv_t + 1
    /\ UNCHANGED <<advInputs, adv_pc, adv_inds, adv_p, adv_dP, adv_j>>
    /\ UNCHANGED advOthers

\* steps_interp on the CPU: one iteration of "for t in range(niter)"
steps_interp_cpu ==
    /\ adv_pc = "interp_cpu"
    /\ adv_t < adv_niter
    /\ LET J   == 1..Len(adv_inds)
           raw == [j \in J |-> map_coordinates(adv_dP, adv_shape, adv_q[j])]
           dPt == IF adv_omni
                  THEN [j \in J |-> vec_scale(raw[j], Rat(1, step_factor(adv_t)))]
                  ELSE raw
       IN  /\ adv_q' = [j \in J |-> clamp_pos(vec_add(adv_q[j], dPt[j]), adv_shape)]
           /\ adv_last' = [t |-> adv_t, from |-> adv_q, disp |-> dPt]
    /\ adv_t' = adv_t + 1
    /\ UNCHANGED <<advInputs, adv_pc, adv_inds, adv_p, adv_dP, adv_dPt0, adv_j>>
    /\ UNCHANGED advOthers

steps_return_converged ==
    /\ adv_pc \in {"steps2D", "steps3D"}
    /\ adv_j = 0
    /\ adv_pc' = "done"
    /\ UNCHANGED <<advInputs, adv_inds, adv_p, adv_q, adv_dP, adv_dPt0, adv_t, adv_j,
                   adv_last>>
    /\ UNCHANGED advOthers

\* the loop of steps2D or steps3D is over: return p
steps_return ==
    /\ adv_pc \in {"steps2D", "steps3D"}
    /\ adv_t >= adv_niter
    /\ adv_pc' = "done"
    /\ UNCHANGED <<advInputs, adv_inds, adv_p, adv_q, adv_dP, adv_dPt0, adv_t, adv_j,
                   adv_last>>
    /\ UNCHANGED advOthers

\* the loop of steps_interp is over: p[cell_px] = p_interp
steps_interp_return ==
    /\ adv_pc \in {"interp_gpu", "interp_cpu"}
    /\ adv_t >= adv_niter
    /\ adv_p' = [pix \in DOMAIN adv_p |->
                    IF \E j \in 1..Len(adv_inds) : adv_inds[j] = pix
                    THEN LET j == CHOOSE i \in 1..Len(adv_inds) : adv_inds[i] = pix
                         IN  IF adv_pc = "interp_gpu"
                             THEN gpu_denormalize(adv_q[j], adv_shape)
                             ELSE adv_q[j]
                    ELSE adv_p[pix]]
    /\ adv_pc' = "done"
    /\ UNCHANGED <<advInputs, adv_inds, adv_q, adv_dP, adv_dPt0, adv_t, adv_j, adv_last>>
    /\ UNCHANGED advOthers

-----------------------------------------------------------------------------
(* Section II of core.py: the consistency filter, on 1-D label images.     *)

\* np.unique(maski, return_inverse=True)[1]: every value replaced by its
\* rank among the values present
unique_inverse(m) ==
    [i \in DOMAIN m |-> Cardinality({m[j] : j \in DOMAIN m} \cap 0..(m[i] - 1))]

\* scipy.ndimage.mean(values, labels, index=[r]) for one label r
label_mean(values, labels, r) ==
    LET S == {i \in DOMAIN labels : labels[i] = r}
    IN  RDiv(RSum(values, S), R(Cardinality(S)))

\* flow_error after masks_to_flows has returned mu: flow_errors[r] belongs
\* to the instance of rank r
flow_errors_of(maski, mu, dP_net) ==
    LET top == SetMax({maski[i] : i \in DOMAIN maski})
        sq  == [i \in DOMAIN maski |->
                   LET e == RSub(mu[i], RDiv(dP_net[i], R(5))) IN RMul(e, e)]
    IN  [r \in 1..top |-> label_mean(sq, maski, r)]

\* badi = 1+(merrors>threshold).nonzero()[0]
badi(merrors, threshold) == {r \in DOMAIN merrors : RLt(threshold, merrors[r])}

\* the default threshold of remove_bad_flow_masks, 0.4
Filt_Thresholds == {Rat(2, 5)}

\* flows of magnitude 5, which flow_error scales to 1, with at most one
\* change of sign along the image
Filt_Flows ==
    {f \in [0..(FS_Width - 1) -> {-5, 5}] :
        Cardinality({i \in 1..(FS_Width - 1) : f[i] # f[i - 1]}) <= 1}

\* flows whose shape is not the label image's: one pixel fewer, one more
Filt_FlowsMismatched ==
    {[i \in 0..(FS_Width - 2) |-> 5], [i \in 0..FS_Width |-> 5]}

\* remove_bad_flow_masks(masks, flows, threshold, omni=omni) on a label image
\* that holds at least one instance
Filt_Init ==
    /\ filt_pc = "call"
    /\ filt_pass = 1
    /\ filt_in \in FS_Images
    /\ np_any(filt_in)
    /\ filt_masks = filt_in
    /\ \E f \in Filt_Flows \cup Filt_FlowsMismatched :
           filt_flows = [i \in DOMAIN f |-> R(f[i])]
    /\ filt_thr \in Filt_Thresholds
    /\ filt_omni \in BOOLEAN
    /\ filt_merr = <<>>
    /\ filt_out1 = <<>>
    /\ filt_err = "none"
    /\ FS_Idle
    /\ Adv_Idle
    /\ CM_Idle
    /\ Cln_Idle
    /\ Rec_Idle
    /\ RT_Idle
    /\ Upd_Idle

\* flow_error up to its call of masks_to_flows(maski, omni=omni), which the
\* field solver's actions then carry out.  When dP_net.shape[1:] differs from
\* maski.shape, flow_error logs a message and returns None, and the
\* unpacking merrors, _ = flow_error(...) raises TypeError
flow_error_call ==
    /\ filt_pc = "call"
    /\ IF DOMAIN filt_flows # DOMAIN filt_masks
       THEN /\ filt_pc' = "raised"
            /\ filt_err' = "TypeError"
            /\ UNCHANGED fsVars
       ELSE /\ filt_pc' = "solving"
            /\ fs_pc' = "call"
            /\ fs_entry' = "masks_to_flows"
            /\ fs_omni' = filt_omni
            /\ fs_in' = unique_inverse(filt_masks)
            /\ fs_masks' = <<>> /\ fs_pad' = 0 /\ fs_niter' = 0 /\ fs_t' = 0 /\ fs_T' = <<>>
            /\ fs_out' = <<>> /\ fs_err' = "none"
            /\ UNCHANGED filt_err
    /\ UNCHANGED <<filt_pass, filt_in, filt_masks, filt_flows, filt_thr, filt_omni,
                   filt_merr, filt_out1>>
    /\ UNCHANGED <<advVars, cmVars, clnVars, recVars, rtVars, updVars>>

\* masks_to_flows has returned or raised: the rest of flow_error
flow_error_return ==
    /\ filt_pc = "solving"
    /\ fs_pc \in {"done", "raised"}
    /\ IF fs_pc = "raised"
       THEN /\ filt_pc' = "raised"
            /\ filt_err' = fs_err
            /\ UNCHANGED filt_merr
       ELSE /\ filt_pc' = "errors"
            /\ filt_merr' = flow_errors_of(fs_in, fs_out.mu, filt_flows)
            /\ UNCHANGED filt_err
    /\ UNCHANGED <<filt_pass, filt_in, filt_masks, filt_flows, filt_thr, filt_omni,
                   filt_out1>>
    /\ UNCHANGED filtOthers

\* masks[np.isin(masks, badi)] = 0; return masks
rbfm_remove ==
    /\ filt_pc = "errors"
    /\ LET bad == badi(filt_merr, filt_thr)
           out == [i \in DOMAIN filt_masks |->
                      IF filt_masks[i] \in bad THEN 0 ELSE filt_masks[i]]
       IN  /\ filt_masks' = out
           /\ filt_out1' = IF filt_pass = 1 THEN out ELSE filt_out1
    /\ filt_pc' = "done"
    /\ UNCHANGED <<filt_pass, filt_in, filt_flows, filt_thr, filt_omni, filt_merr,
                   filt_err>>
    /\ UNCHANGED filtOthers

\* the caller applies remove_bad_flow_masks to the returned image, with the
\* same flows and threshold
rbfm_again ==
    /\ filt_pc = "done"
    /\ filt_pass = 1
    /\ filt_pass' = 2
    /\ filt_pc' = "call"
    /\ filt_merr' = <<>>
    /\ UNCHANGED <<filt_in, filt_masks, filt_flows, filt_thr, filt_omni, filt_out1,
                   filt_err>>
    /\ UNCHANGED filtOthers

-----------------------------------------------------------------------------
(* fill_holes_and_remove_small_masks on 2-D label images.  An image of     *)
(* shape <<H, W>> is kept raveled: pixel <<y, x>> is index y*W + x.  The    *)
(* function is applied once and then again to what it returned.            *)

\* find_objects(masks) on a 2-D image: for every label 1..max its bounding
\* box <<y0, y1, x0, x1>> (inclusive), or None
find_objects_2D(masks, shape) ==
    [k \in 1..SetMax({masks[i] : i \in DOMAIN masks}) |->
        LET S  == {i \in DOMAIN masks : masks[i] = k}
            ys == {i \div shape[2] : i \in S}
            xs == {i % shape[2] : i \in S}
        IN  IF S = {} THEN None
            ELSE <<SetMin(ys), SetMax(ys), SetMin(xs), SetMax(xs)>>]

\* the neighbours of a cell under connectivity 1
neighbours(c) ==
    {<<c[1] - 1, c[2]>>, <<c[1] + 1, c[2]>>, <<c[1], c[2] - 1>>, <<c[1], c[2] + 1>>}

\* the cells of B connected to the front
RECURSIVE flood(_, _, _)
flood(front, seen, B) ==
    IF front = {} THEN seen
    ELSE LET nxt == ((UNION {neighbours(c) : c \in front}) \cap B) \ seen
         IN  flood(nxt, seen \cup nxt, B)

\* ndi.label(ar): the connected components of the set of true cells
RECURSIVE ndi_label(_)
ndi_label(ar) ==
    IF ar = {} THEN {}
    ELSE LET c    == CHOOSE x \in ar : TRUE
             comp == flood({c}, {c}, ar)
         IN  {comp} \cup ndi_label(ar \ comp)

\* skimage remove_small_objects(ar, min_size): components with fewer than
\* min_size cells are cleared
remove_small_objects(ar, min_size) ==
    ar \ UNION {comp \in ndi_label(ar) : RLt(R(Cardinality(comp)), min_size)}

\* skimage remove_small_holes(ar, area_threshold) on the array whose cells
\* are `cells` and whose true cells are ar
remove_small_holes_2D(ar, cells, area_threshold) ==
    cells \ remove_small_objects(cells \ ar, area_threshold)

\* hole_size, and the percentage it is turned into
hole_size == 3

\* one iteration of the loop over slices, for label i+1: the new masks and j
cleanup_iteration(masks, shape, slc, i, j, min_size) ==
    IF slc = None THEN [masks |-> masks, j |-> j]
    ELSE LET W    == shape[2]
             box  == {y * W + x : y \in slc[1]..slc[2], x \in slc[3]..slc[4]}
             msk  == {p \in box : masks[p] = i + 1}
             npix == Cardinality(msk)
         IN  IF min_size > 0 /\ npix < min_size
             THEN [masks |-> [p \in DOMAIN masks |-> IF p \in msk THEN 0 ELSE masks[p]],
                   j |-> j]
             ELSE LET hsz    == Rat(npix * hole_size, 100)
                      h      == slc[2] - slc[1] + 1
                      w      == slc[4] - slc[3] + 1
                      cells  == (0..(h + 1)) \X (0..(w + 1))
                      padmsk == {<<(p \div W) - slc[1] + 1, (p % W) - slc[3] + 1>> : p \in msk}
                      filled == remove_small_holes_2D(padmsk, cells, hsz)
                      msk2   == {(c[1] - 1 + slc[1]) * W + (c[2] - 1 + slc[3]) :
                                    c \in filled \cap ((1..h) \X (1..w))}
                  IN  [masks |-> [p \in DOMAIN masks |-> IF p \in msk2 THEN j + 1 ELSE masks[p]],
                       j |-> j + 1]

\* the images the cleanup is applied to: CleanRows x CleanCols pixels
CleanRows == 6

CleanCols == 7

CleanShape == <<CleanRows, CleanCols>>

\* the pixels whose label varies: one interior pixel, two adjacent pixels of
\* the first row, and the last pixel
CleanFree == {2 * CleanCols + 3, 0, 1, CleanRows * CleanCols - 1}

\* every other pixel carries the same value: background, or one large
\* instance with id 2
CleanImages ==
    {[p \in 0..(CleanRows * CleanCols - 1) |-> IF p \in CleanFree THEN f[p] ELSE base] :
        f \in [CleanFree -> 0..3], base \in {0, 2}}

Cln_Init ==
    /\ cln_pc = "call"
    /\ cln_pass = 1
    /\ cln_in \in CleanImages
    /\ cln_min_size \in {-1, 1, 2}
    /\ cln_masks = cln_in
    /\ cln_slices = <<>>
    /\ cln_i = 0
    /\ cln_j = 0
    /\ cln_out1 = <<>>
    /\ FS_Idle
    /\ Adv_Idle
    /\ Filt_Idle
    /\ CM_Idle
    /\ Rec_Idle
    /\ RT_Idle
    /\ Upd_Idle

\* masks = ncolor.format_labels(masks, min_area=min_size);
\* slices = find_objects(masks); j = 0
fhrsm_format ==
    /\ cln_pc = "call"
    /\ cln_masks' = format_labels(cln_masks)
    /\ cln_slices' = find_objects_2D(format_labels(cln_masks), CleanShape)
    /\ cln_i' = 0
    /\ cln_j' = 0
    /\ cln_pc' = "loop"
    /\ UNCHANGED <<cln_pass, cln_in, cln_min_size, cln_out1>>
    /\ UNCHANGED clnOthers

\* for i, slc in enumerate(slices): ...
fhrsm_iterate ==
    /\ cln_pc = "loop"
    /\ cln_i < Size(cln_slices)
    /\ LET r == cleanup_iteration(cln_masks, CleanShape, cln_slices[cln_i + 1],
                                  cln_i, cln_j, cln_min_size)
       IN  /\ cln_masks' = r.masks
           /\ cln_j' = r.j
    /\ cln_i' = cln_i + 1
    /\ UNCHANGED <<cln_pc, cln_pass, cln_in, cln_min_size, cln_slices, cln_out1>>
    /\ UNCHANGED clnOthers

\* return masks
fhrsm_return ==
    /\ cln_pc = "loop"
    /\ cln_i >= Size(cln_slices)
    /\ cln_pc' = "done"
    /\ cln_out1' = IF cln_pass = 1 THEN cln_masks ELSE cln_out1
    /\ UNCHANGED <<cln_pass, cln_in, cln_min_size, cln_masks, cln_slices, cln_i, cln_j>>
    /\ UNCHANGED clnOthers

\* the caller applies the function to the returned image, with the same
\* min_size
fhrsm_again ==
    /\ cln_pc = "done"
    /\ cln_pass = 1
    /\ cln_pass' = 2
    /\ cln_pc' = "call"
    /\ UNCHANGED <<cln_in, cln_min_size, cln_masks, cln_slices, cln_i, cln_j, cln_out1>>
    /\ UNCHANGED clnOthers

-----------------------------------------------------------------------------
(* get_masks, the Omnipose mask reconstruction, on one-row images: a pixel  *)
(* is its column 0..n-1, a position is its coordinate along the row (the   *)
(* other coordinate is 0 for every point).  Point k (from 1) is the k-th   *)
(* foreground pixel in scan order.                                          *)

\* DBSCAN(min_samples=3), NearestNeighbors(n_neighbors=50), diam_threshold=12.
min_samples == 3

n_neighbors == 50

diam_threshold == 12

RSq(x) == RMul(x, x)

\* eps*eps: eps = 1+1/3 when nclasses >= 4, np.sqrt(2) otherwise
eps_squared(nclasses) == IF nclasses >= 4 THEN Rat(16, 9) ELSE R(2)

\* inds, as compute_masks passes them: np.nonzero(mask), in scan order
inds_of(mask) ==
    [k \in 1..Cardinality(mask) |->
        CHOOSE x \in mask : Cardinality({y \in mask : y < x}) = k - 1]

\* the sum of f over lo..hi, by halves
RECURSIVE RSumRange(_, _, _)
RSumRange(f, lo, hi) ==
    IF lo > hi THEN R(0)
    ELSE IF lo = hi THEN f[lo]
    ELSE LET mid == (lo + hi) \div 2
         IN  RAdd(RSumRange(f, lo, mid), RSumRange(f, mid + 1, hi))

\* newinds = p[(Ellipsis,)+cell_px].T
newinds_of(p, ix) == [k \in 1..Len(ix) |-> p[ix[k]]]

\* d: dist_to_diam(np.abs(dist[mask]), mask.ndim) when nclasses >= 4,
\* diameters(mask) otherwise; mask.ndim is 2
get_masks_d(dist, mask, n, nclasses) ==
    LET dt     == IF nclasses >= 4
                  THEN [i \in 0..(n - 1) |->
                           IF i \notin mask THEN R(0)
                           ELSE IF RSign(dist[i]) < 0 THEN RNeg(dist[i]) ELSE dist[i]]
                  ELSE LET e == edt([i \in 0..(n - 1) |-> IF i \in mask THEN 1 ELSE 0])
                       IN  [i \in 0..(n - 1) |-> R(e[i])]
        dt_pos == IF nclasses >= 4 THEN mask ELSE {i \in 0..(n - 1) : RSign(dt[i]) > 0}
    IN  IF dt_pos = {} THEN NaN
        ELSE RMul(R(2 * (2 + 1)), RDiv(RSumRange(dt, 0, n - 1), R(Cardinality(dt_pos))))

\* a comparison that never turns clustering on
d_never_below(d) == FALSE

\* d <= diam_threshold; a comparison with NaN is false
d_below_threshold(d) == ~IsNaN(d) /\ RLe(d, R(diam_threshold))

\* the squared distances between the points of X, positions along a row
row_sqdists(X) ==
    [i \in 1..Len(X) |-> [j \in 1..Len(X) |-> RSq(RSub(X[i], X[j]))]]

\* the eps-neighbourhood of every point (the point itself included), from
\* the squared distances D between the points
neighborhoods(D, eps2) ==
    Tabulate([i \in DOMAIN D |->
                 {j \in DOMAIN D : RLe(D[i][j], eps2)}], DOMAIN D)

\* the points a cluster grown from the front takes: the unlabelled
\* neighbours of its core points, transitively
RECURSIVE dbscan_expand(_, _, _, _, _)
dbscan_expand(front, seen, nbr, core, labels) ==
    IF front = {} THEN seen
    ELSE LET nxt == {v \in UNION {nbr[c] : c \in front \cap core} :
                        v \notin seen /\ labels[v] = -1}
         IN  dbscan_expand(nxt, seen \cup nxt, nbr, core, labels)

\* sklearn's dbscan_inner from point i on
RECURSIVE dbscan_inner(_, _, _, _, _)
dbscan_inner(nbr, core, i, label_num, labels) ==
    IF i > Len(labels) THEN labels
    ELSE IF labels[i] # -1 \/ i \notin core
    THEN dbscan_inner(nbr, core, i + 1, label_num, labels)
    ELSE LET members == dbscan_expand({i}, {i}, nbr, core, labels)
         IN  dbscan_inner(nbr, core, i + 1, label_num + 1,
                          [k \in 1..Len(labels) |->
                              IF k \in members THEN label_num ELSE labels[k]])

\* DBSCAN(eps, min_samples=3).fit(newinds).labels_; noise is -1
DBSCAN(D, eps2) ==
    LET nbr  == neighborhoods(D, eps2)
        core == {i \in DOMAIN D : Cardinality(nbr[i]) >= min_samples}
    IN  dbscan_inner(nbr, core, 1, 0, [k \in DOMAIN D |-> -1])

\* the failure of [0][0] on an empty np.where
NoLabel == -2

\* n[(np.where(n!=-1)+(0,))[0][0]] for outlier o, n the labels of its
\* n_neighbors nearest points in order of distance.  Points at equal
\* distance come in an order kneighbors does not fix, so this is the set of
\* values the expression can take; NoLabel stands for its IndexError
snap_choices(D, labels, o) ==
    LET N        == Len(labels)
        d2       == Tabulate([j \in 1..N |-> D[o][j]], 1..N)
        nonnoise == {j \in 1..N : labels[j] # -1}
        ds       == {d2[j] : j \in nonnoise}
        \* the distance of the nearest non-noise point
        dmin     == CHOOSE d \in ds : \A e \in ds : RLe(d, e)
        nearer   == IF nonnoise = {} THEN 1..N ELSE {i \in 1..N : RLt(d2[i], dmin)}
        first    == IF nonnoise # {} /\ Cardinality(nearer) < n_neighbors
                    THEN {j \in nonnoise : d2[j] = dmin} ELSE {}
        before   == IF nonnoise = {} THEN 1..N
                    ELSE nearer \cup {i \in (1..N) \ nonnoise : d2[i] = dmin}
    IN  {labels[j] : j \in first} \cup
        (IF Cardinality(before) >= n_neighbors THEN {NoLabel} ELSE {})

\* np.rint: to the nearest integer, halves to the even one
rint(x) ==
    LET f == RFloor(x)
        r == RSub(x, R(f))
    IN  IF RLt(r, Rat(1, 2)) THEN f
        ELSE IF RLt(Rat(1, 2), r) THEN f + 1
        ELSE IF f % 2 = 0 THEN f ELSE f + 1

\* binary_opening(border_px, border_value=0, iterations=3) on a one-row
\* image: the erosion by the cross, with everything outside the image 0,
\* clears every pixel, and the dilation of nothing is nothing
binary_opening(border_px) == {}

\* measure.label(skelmask, connectivity=2) on a one-row image: the runs of
\* consecutive pixels, numbered in scan order from 1
measure_label(skelmask, n) ==
    [x \in 0..(n - 1) |->
        IF x \notin skelmask THEN 0
        ELSE Cardinality({s \in skelmask : s <= x /\ (s - 1) \notin skelmask})]

\* the else branch of get_masks.  border_mask, five dilations from the
\* border, is the whole of a one-row image
skeleton_labels(X, ix, bd, n, nclasses) ==
    LET new_px    == [k \in 1..Len(X) |-> rint(X[k])]
        skelmask0 == {new_px[k] : k \in 1..Len(X)}
        border_px == IF nclasses = 4
                     THEN {x \in skelmask0 : ~(bd[x] > -1)}
                     ELSE binary_opening(skelmask0)
        LL        == measure_label(border_px, n)
    IN  [x \in 0..(n - 1) |->
            IF \E k \in 1..Len(ix) : ix[k] = x
            THEN LL[new_px[CHOOSE k \in 1..Len(ix) : ix[k] = x]]
            ELSE 0]

\* the row get_masks is called on
RecWidth == 54

\* the calls: a foreground map, the positions its pixels converge to, and
\* the pixels that may instead stay where they started.  None, ten, all but
\* two or all but the first of the pixels are foreground; in the last case
\* every odd pixel moved one pixel to the left and every even one stayed
RecCases ==
    { [mask |-> {}, sinks |-> {0}, strays |-> {}],
      [mask |-> {0, 4, 5, 6, 9, 14, 15, 16, 17, 21}, sinks |-> {5, 15},
       strays |-> {0, 9, 21}],
      [mask |-> (0..(RecWidth - 1)) \ {26, 27}, sinks |-> {12, 40},
       strays |-> {0, 25, RecWidth - 1}],
      [mask |-> 1..(RecWidth - 1),
       sinks |-> {x \in 0..(RecWidth - 1) : x % 2 = 0}, strays |-> {}] }

\* the sink nearest to pixel x
nearest_sink(x, sinks) ==
    CHOOSE s \in sinks : \A u \in sinks : Abs(x - s) < Abs(x - u) \/ (Abs(x - s) = Abs(x - u) /\ s <= u)

Rec_Init ==
    /\ rec_pc = "call"
    /\ rec_nclasses \in {3, 4}
    /\ rec_cluster \in BOOLEAN
    /\ \E c \in RecCases : \E stay \in SUBSET c.strays :
           /\ rec_mask = c.mask
           /\ rec_p = [x \in 0..(RecWidth - 1) |->
                          IF x \in c.mask /\ x \notin stay
                          THEN R(nearest_sink(x, c.sinks)) ELSE R(x)]
    /\ \E v \in {1, 3} : rec_dist = [x \in 0..(RecWidth - 1) |-> R(v)]
    /\ rec_nclasses = 3 => rec_dist[0] = R(1)
    /\ \/ rec_bd = None
       \/ \E b \in {-2, 0} : rec_bd = [x \in 0..(RecWidth - 1) |-> b]
    /\ rec_inds = inds_of(rec_mask)
    /\ rec_newinds = <<>>
    /\ rec_d = <<0, 1>>
    /\ rec_db = <<>>
    /\ rec_labels = <<>>
    /\ rec_out = <<>>
    /\ rec_err = "none"
    /\ FS_Idle
    /\ Adv_Idle
    /\ Filt_Idle
    /\ CM_Idle
    /\ Cln_Idle
    /\ RT_Idle
    /\ Upd_Idle

recInputs == <<rec_nclasses, rec_mask, rec_dist, rec_bd, rec_p, rec_inds>>

\* the diameter estimate d, cluster = True when d <= diam_threshold, and
\* newinds
gm_diameter ==
    /\ rec_pc = "call"
    /\ LET d == get_masks_d(rec_dist, rec_mask, RecWidth, rec_nclasses)
           c == rec_cluster \/ d_below_threshold(d)
       IN  /\ rec_d' = d
           /\ rec_cluster' = c
           /\ rec_pc' = IF c THEN "dbscan" ELSE "skeleton"
    /\ rec_newinds' = newinds_of(rec_p, rec_inds)
    /\ UNCHANGED <<recInputs, rec_db, rec_labels, rec_out, rec_err>>
    /\ UNCHANGED recOthers

\* db = DBSCAN(eps=eps, min_samples=3, n_jobs=-1).fit(newinds), which
\* rejects an empty array
gm_dbscan ==
    /\ rec_pc = "dbscan"
    /\ IF rec_mask = {}
       THEN /\ rec_pc' = "raised"
            /\ rec_err' = "ValueError"
            /\ UNCHANGED <<rec_db, rec_labels>>
       ELSE LET l == DBSCAN(row_sqdists(rec_newinds), eps_squared(rec_nclasses))
            IN  /\ rec_db' = l
                /\ rec_labels' = l
                /\ rec_pc' = "snap"
                /\ UNCHANGED rec_err
    /\ UNCHANGED <<recInputs, rec_newinds, rec_cluster, rec_d, rec_out>>
    /\ UNCHANGED recOthers

\* snapping outliers: with more than one, each takes the label of the first
\* non-noise point among its n_neighbors nearest; kneighbors rejects
\* n_neighbors > n_samples
gm_snap ==
    /\ rec_pc = "snap"
    /\ LET X      == rec_newinds
           o_inds == {k \in 1..Len(X) : rec_labels[k] = -1}
       IN  IF Cardinality(o_inds) > 1
           THEN IF Len(X) < n_neighbors
                THEN /\ rec_pc' = "raised"
                     /\ rec_err' = "ValueError"
                     /\ UNCHANGED rec_labels
                ELSE \/ /\ \E o \in o_inds : NoLabel \in snap_choices(row_sqdists(X), rec_labels, o)
                        /\ rec_pc' = "raised"
                        /\ rec_err' = "IndexError"
                        /\ UNCHANGED rec_labels
                     \/ \E l \in [o_inds -> {rec_labels[k] : k \in 1..Len(X)} \ {-1}] :
                         /\ \A o \in o_inds : l[o] \in snap_choices(row_sqdists(X), rec_labels, o)
                         /\ rec_labels' = [k \in 1..Len(X) |->
                                IF k \in o_inds THEN l[k] ELSE rec_labels[k]]
                         /\ rec_pc' = "write"
                         /\ UNCHANGED rec_err
           ELSE /\ rec_pc' = "write"
                /\ UNCHANGED <<rec_labels, rec_err>>
    /\ UNCHANGED <<recInputs, rec_newinds, rec_cluster, rec_d, rec_db, rec_out>>
    /\ UNCHANGED recOthers

\* mask[cell_px] = labels+1; return mask
gm_write ==
    /\ rec_pc = "write"
    /\ rec_out' = [x \in 0..(RecWidth - 1) |->
                       IF \E k \in 1..Len(rec_inds) : rec_inds[k] = x
                       THEN rec_labels[CHOOSE k \in 1..Len(rec_inds) : rec_inds[k] = x] + 1
                       ELSE 0]
    /\ rec_pc' = "done"
    /\ UNCHANGED <<recInputs, rec_newinds, rec_cluster, rec_d, rec_db, rec_labels, rec_err>>
    /\ UNCHANGED recOthers

\* the else branch: labels of the connected skeleton; return mask.  With
\* nclasses == 4 the branch evaluates bd>-1, which fails on bd = None
gm_skeleton ==
    /\ rec_pc = "skeleton"
    /\ IF rec_nclasses = 4 /\ DOMAIN rec_bd = {}
       THEN /\ rec_pc' = "raised"
            /\ rec_err' = "TypeError"
            /\ UNCHANGED rec_out
       ELSE /\ rec_out' = skeleton_labels(rec_newinds, rec_inds, rec_bd, RecWidth,
                                          rec_nclasses)
            /\ rec_pc' = "done"
            /\ UNCHANGED rec_err
    /\ UNCHANGED <<recInputs, rec_newinds, rec_cluster, rec_d, rec_db, rec_labels>>
    /\ UNCHANGED recOthers

-----------------------------------------------------------------------------
(* Section II of core.py: compute_masks, on 2-D images.  An image of shape *)
(* <<H, W>> is kept raveled: pixel <<y, x>> is index y*W + x.  A point     *)
(* array p gives for every pixel the cell <<y, x>> it has been taken to.   *)
(* The thresholding, the reconstruction from the points, the resize, the   *)
(* cleanup and the renumberings are computed.  The values of the flow dP   *)
(* are not part of the state: the preprocessed flow is kept as a term, the *)
(* points follow_flows returns when it integrates range over a family of   *)
(* point arrays, and the instances the consistency filter removes range    *)
(* over the instances flow_error has an error for.                         *)

\* the number of pixels of an image of a shape
NPix(shape) == shape[1] * shape[2]

\* the cells of an image of a shape
CellsOf(shape) == (0..(shape[1] - 1)) \X (0..(shape[2] - 1))

\* the cell of a raveled index
CellAt(i, shape) == <<i \div shape[2], i % shape[2]>>

\* np.zeros(shape)
zeros(shape) == [i \in 0..(NPix(shape) - 1) |-> 0]

\* skimage.filters.apply_hysteresis_threshold(image, low, high): the pixels
\* above low in a component (ndi.label, connectivity 1) of the pixels above
\* low that holds a pixel above high
apply_hysteresis_threshold(image, shape, low, high) ==
    LET lo        == RMin(low, high)
        mask_low  == {CellAt(i, shape) : i \in {j \in DOMAIN image : RLt(lo, image[j])}}
        mask_high == {CellAt(i, shape) : i \in {j \in DOMAIN image : RLt(high, image[j])}}
        connected == flood(mask_high, mask_high, mask_low)
    IN  [i \in DOMAIN image |-> CellAt(i, shape) \in connected]

\* compute_masks: the foreground map.  The hysteresis threshold is used
\* when omni or (inds is not None)
foreground(dist, shape, threshold, omni, ix) ==
    IF omni \/ ix # None
    THEN apply_hysteresis_threshold(dist, shape, RSub(threshold, R(1)), threshold)
    ELSE [i \in DOMAIN dist |-> RLt(threshold, dist[i])]

\* np.any(mask) of a boolean map
any_true(mask) == \E i \in DOMAIN mask : mask[i]

\* np.nonzero of a boolean map, in scan order
nonzero_of(mask) == inds_of({i \in DOMAIN mask : mask[i]})

\* the else branch: np.zeros(resize) if resize is not None else
\* np.zeros_like(dist)
empty_mask_like_dist(shape, resize) == zeros(shape)

empty_mask(shape, resize) ==
    IF resize # None THEN zeros(resize) ELSE zeros(shape)

\* p = np.zeros([2,1,1])
placeholder_p == [i \in {0} |-> <<0, 0>>]

\* np.gradient(f[i], axis=i) in divergence, which div_rescale calls, rejects
\* an axis of fewer than two elements
div_rescale_raises(shape) == shape[1] < 2 \/ shape[2] < 2

\* dP_ = div_rescale(dP, mask), or dP * mask / 5.
preprocess(mask, omni) ==
    [op |-> IF omni THEN "div_rescale" ELSE "dP*mask/5", dP |-> "dP", mask |-> mask]

\* p = np.meshgrid(*grid, indexing='ij'): every pixel at its own cell
meshgrid_2D(shape) == [i \in 0..(NPix(shape) - 1) |-> CellAt(i, shape)]

\* the point arrays of the model: every pixel where it started, every pixel
\* at the first cell, and the first half of the pixels at the first cell
\* with the second half at the last one
CM_Points(shape) ==
    {meshgrid_2D(shape),
     [i \in 0..(NPix(shape) - 1) |-> <<0, 0>>],
     [i \in 0..(NPix(shape) - 1) |->
         IF 2 * i < NPix(shape) THEN <<0, 0>> ELSE <<shape[1] - 1, shape[2] - 1>>]}

\* the pixels follow_flows works on: inds when passed; np.nonzero(mask) in
\* omni mode; otherwise the pixels where abs(dP[0]) > 1e-3, which are none
\* or all of the foreground in the model
selected_inds(mask, ix, omni) ==
    IF ix # None THEN {ix}
    ELSE IF omni THEN {nonzero_of(mask)}
    ELSE {<<>>, nonzero_of(mask)}

\* the p follow_flows returns: the meshgrid when fewer than MinPoints pixels
\* are selected, and otherwise the meshgrid with the selected pixels where
\* the integration took them
follow_flows_results(shape, ix) ==
    IF Len(ix) < MinPoints THEN {meshgrid_2D(shape)}
    ELSE {[i \in 0..(NPix(shape) - 1) |->
              IF \E k \in 1..Len(ix) : ix[k] = i THEN q[i] ELSE CellAt(i, shape)] :
             q \in CM_Points(shape)}

\* get_masks_cp: p[i, ~iscell] = inds[i][~iscell], with inds the meshgrid
pin_background(p, iscell, shape) ==
    [i \in DOMAIN p |-> IF iscell[i] THEN p[i] ELSE CellAt(i, shape)]

\* the floor of the square root of n, by bisection of lo..hi
RECURSIVE FloorSqrt(_, _, _)
FloorSqrt(n, lo, hi) ==
    IF lo >= hi THEN lo
    ELSE LET mid == (lo + hi + 1) \div 2
         IN  IF mid * mid <= n THEN FloorSqrt(n, mid, hi) ELSE FloorSqrt(n, lo, mid - 1)

\* k more decimal digits of a square root: from r = floor(sqrt(n)) and
\* rem = n - r * r to floor(sqrt(n) * 10^k)
RECURSIVE sqrt_digits(_, _, _)
sqrt_digits(r, rem, k) ==
    IF k = 0 THEN r
    ELSE LET d == SetMax({e \in 0..9 : (20 * r + e) * e <= 100 * rem})
         IN  sqrt_digits(10 * r + d, 100 * rem - (20 * r + d) * d, k - 1)

\* the sum of f[a..b], by halves
RECURSIVE ISumRange(_, _, _)
ISumRange(f, a, b) ==
    IF a > b THEN 0
    ELSE IF a = b THEN f[a]
    ELSE LET m == (a + b) \div 2 IN ISumRange(f, a, m) + ISumRange(f, m + 1, b)

\* d <= diam_threshold for d = diameters(mask) = 2*(2+1)*np.mean(dt[dt>0]),
\* dt = edt.edt(mask) the distance of every foreground pixel to the nearest
\* background pixel: the values the comparison can have.  Without a
\* background pixel edt gives inf.  The distances, their mean and d are
\* float32 numbers.  When every distance is an integer they are exact and
\* the rounding of the mean keeps the order, so the comparison is that of
\* the exact numbers.  Otherwise the sum of the roots lies between the sum
\* lo of their first five decimals and lo plus one unit for every root, and
\* the float32 result is within one part in 100000 of the exact one: the
\* comparison is decided when the exact d is further than that from the
\* threshold, and is left to the rounding when it is nearer
diameters_below_threshold(mask, shape) ==
    LET fg     == {i \in DOMAIN mask : mask[i]}
        bg     == (DOMAIN mask) \ fg
        N      == Cardinality(fg)
        sq(i)  == SetMin({(CellAt(i, shape)[1] - CellAt(b, shape)[1]) ^ 2
                            + (CellAt(i, shape)[2] - CellAt(b, shape)[2]) ^ 2 : b \in bg})
        last   == Size(mask) - 1
        r0     == [i \in DOMAIN mask |-> IF mask[i] THEN FloorSqrt(sq(i), 0, sq(i)) ELSE 0]
        dt     == [i \in DOMAIN mask |->
                      IF mask[i] THEN sqrt_digits(r0[i], sq(i) - r0[i] * r0[i], 5) ELSE 0]
        lo0    == ISumRange(r0, 0, last)
        rough  == Cardinality({i \in fg : r0[i] * r0[i] # sq(i)})
        lo     == ISumRange(dt, 0, last)
        hi     == lo + rough
        \* the threshold on the sum of the distances, in units of 0.00001:
        \* diam_threshold * N / (2 * (2 + 1))
        T      == ((diam_threshold * 100000) \div (2 * (2 + 1))) * N
        tol    == T \div 100000 + 1
    IN  IF bg = {} \/ fg = {} THEN {FALSE}
        ELSE IF rough = 0 THEN {2 * (2 + 1) * lo0 <= diam_threshold * N}
        \* the whole parts of the roots decide when d is far from the threshold
        ELSE IF 2 * (2 + 1) * (lo0 + rough + 1) <= diam_threshold * N THEN {TRUE}
        ELSE IF 2 * (2 + 1) * (lo0 - 1) > diam_threshold * N THEN {FALSE}
        ELSE IF hi + tol <= T THEN {TRUE}
        ELSE IF lo - tol > T THEN {FALSE}
        ELSE BOOLEAN

\* the squared distances between the points of X, cells of the plane
plane_sqdists(X) ==
    [i \in 1..Len(X) |-> [j \in 1..Len(X) |->
        R((X[i][1] - X[j][1]) ^ 2 + (X[i][2] - X[j][2]) ^ 2)]]

\* mask[cell_px] = v for the values v of the points, on a zero image
written_at(ix, v, shape) ==
    [i \in 0..(NPix(shape) - 1) |->
        IF \E k \in 1..Len(ix) : ix[k] = i
        THEN v[CHOOSE k \in 1..Len(ix) : ix[k] = i]
        ELSE 0]

\* binary_erosion and binary_dilation with the cross, border_value=0
binary_erosion(S) == {c \in S : neighbours(c) \subseteq S}

binary_dilation(S, shape) ==
    S \cup {c \in CellsOf(shape) : neighbours(c) \cap S # {}}

\* binary_opening(border_px, border_value=0, iterations=3)
binary_opening_2D(S, shape) ==
    LET e == binary_erosion(binary_erosion(binary_erosion(S)))
    IN  binary_dilation(binary_dilation(binary_dilation(e, shape), shape), shape)

\* the cells around a cell under connectivity 2
neighbours_full(c) ==
    {<<c[1] + dy, c[2] + dx>> : dy \in -1..1, dx \in -1..1} \ {c}

\* the cells of B connected to the front under connectivity 2
RECURSIVE flood_full(_, _, _)
flood_full(front, seen, B) ==
    IF front = {} THEN seen
    ELSE LET nxt == ((UNION {neighbours_full(c) : c \in front}) \cap B) \ seen
         IN  flood_full(nxt, seen \cup nxt, B)

\* measure.label(skelmask, connectivity=2): the components, numbered from 1
\* in scan order of their first cell
measure_label_2D(S, shape) ==
    LET comp(c)  == flood_full({c}, {c}, S)
        first(c) == SetMin({d[1] * shape[2] + d[2] : d \in comp(c)})
    IN  [c \in CellsOf(shape) |->
            IF c \notin S THEN 0
            ELSE Cardinality({first(d) : d \in {e \in S : first(e) <= first(c)}})]

\* the else branch of get_masks with nclasses = 3: the cells of the points
\* within five pixels of the border are replaced by their opening, and every
\* pixel takes the label of the component of its point's cell
skeleton_labels_2D(X, ix, shape) ==
    LET skelmask0   == {X[k] : k \in 1..Len(X)}
        border_mask == {c \in CellsOf(shape) :
                           \/ c[1] < 5 \/ shape[1] - 1 - c[1] < 5
                           \/ c[2] < 5 \/ shape[2] - 1 - c[2] < 5}
        border_px   == binary_opening_2D(skelmask0 \cap border_mask, shape)
        skelmask    == (skelmask0 \ border_mask) \cup (border_px \cap border_mask)
        LL          == measure_label_2D(skelmask, shape)
    IN  written_at(ix, [k \in 1..Len(X) |-> LL[X[k]]], shape)

\* get_masks(p, bd, dist, mask, inds, nclasses=3, cluster=cluster): the
\* label image it returns, or the exception it raises.  DBSCAN.fit rejects
\* an empty array and kneighbors rejects n_neighbors > n_samples
get_masks_results(p, ix, mask, shape, cluster) ==
    LET X      == newinds_of(p, ix)
        N      == Len(X)
        D      == plane_sqdists(X)
        db     == DBSCAN(D, eps_squared(3))
        o_inds == {k \in 1..N : db[k] = -1}
        ok(m)  == [err |-> "none", mask |-> m]
        clustered ==
            IF N = 0 THEN {[err |-> "ValueError", mask |-> None]}
            ELSE IF Cardinality(o_inds) <= 1
            THEN {ok(written_at(ix, [k \in 1..N |-> db[k] + 1], shape))}
            ELSE IF N < n_neighbors THEN {[err |-> "ValueError", mask |-> None]}
            ELSE (IF \E o \in o_inds : NoLabel \in snap_choices(D, db, o)
                  THEN {[err |-> "IndexError", mask |-> None]} ELSE {})
                 \cup
                 {ok(written_at(ix, [k \in 1..N |-> IF k \in o_inds THEN l[k] + 1
                                                        ELSE db[k] + 1], shape)) :
                     l \in {f \in [o_inds -> {db[k] : k \in 1..N} \ {-1}] :
                               \A o \in o_inds : f[o] \in snap_choices(D, db, o)}}
    IN  UNION {IF cluster \/ below THEN clustered
               ELSE {ok(skeleton_labels_2D(X, ix, shape))} :
                  below \in diameters_below_threshold(mask, shape)}

\* get_masks_cp(p, iscell=mask, flows=dP) on the pinned points, each in a
\* cell of the image: the histogram h of the cells, its seeds (more than 10
\* points, maximal in the window of 5), five rounds of growth over the cells
\* with more than 2 points, the labels of the points' cells, the removal of
\* the big masks and the np.unique
get_masks_cp(p, shape) ==
    LET cells     == CellsOf(shape)
        h         == [b \in cells |-> Cardinality({i \in DOMAIN p : p[i] = b})]
        near(b, r) == {c \in cells : Abs(c[1] - b[1]) <= r /\ Abs(c[2] - b[2]) <= r}
        seeds     == SortedSeq({b[1] * shape[2] + b[2] :
                         b \in {c \in cells : h[c] > 10 /\ \A e \in near(c, 2) : h[e] <= h[c]}})
        grow(S)   == {c \in cells : h[c] > 2 /\ \E b \in S : c \in near(b, 1)}
        pix(k)    == grow(grow(grow(grow(grow({CellAt(seeds[k], shape)})))))
        M(b)      == LET ks == {k \in 1..Len(seeds) : b \in pix(k)}
                     IN  IF ks = {} THEN 0 ELSE SetMax(ks)
        M0        == [i \in DOMAIN p |-> M(p[i])]
        vals      == SortedSeq({M0[i] : i \in DOMAIN p})
        counts    == [k \in 1..Len(vals) |-> Cardinality({i \in DOMAIN p : M0[i] = vals[k]})]
        big       == {k - 1 : k \in {j \in 1..Len(vals) : 10 * counts[j] > 4 * NPix(shape)}}
    IN  unique_inverse([i \in DOMAIN p |-> IF M0[i] \in big THEN 0 ELSE M0[i]])

\* a condition that looks at the label image only
filter_applies_to_any(mask, do_3D, flow_threshold) ==
    SetMax({mask[i] : i \in DOMAIN mask}) > 0

\* the condition under which compute_masks applies remove_bad_flow_masks
filter_applies(mask, do_3D, flow_threshold) ==
    /\ ~do_3D
    /\ SetMax({mask[i] : i \in DOMAIN mask}) > 0
    /\ flow_threshold # None
    /\ RLt(R(0), flow_threshold)

\* remove_bad_flow_masks raises inside masks_to_flows, on the image flow_error
\* makes with np.unique: in omni mode when it has no instance (the diameter
\* is NaN), otherwise when it has exactly one foreground pixel (the squeeze
\* in _extend_centers_torch drops the pixel axis of the flow)
filter_raises(mask, omni) ==
    LET maski == unique_inverse(mask)
        npix  == Cardinality({i \in DOMAIN maski : maski[i] # 0})
    IN  IF omni THEN npix = 0 ELSE npix = 1

\* masks[np.isin(masks, badi)] = 0, for badi drawn from the ranks
\* flow_error has an error for
filter_results(mask) ==
    LET top == SetMax({unique_inverse(mask)[i] : i \in DOMAIN mask})
    IN  {[i \in DOMAIN mask |-> IF mask[i] \in bad THEN 0 ELSE mask[i]] :
            bad \in SUBSET (1..top)}

\* scipy.ndimage.zoom(mask, resize/np.array(mask.shape), order=0): along
\* each axis output index i takes the input index nearest to i*(n-1)/(N-1),
\* halves rounded up
zoom_index(i, n, N) ==
    IF N = 1 THEN 0 ELSE RFloor(RAdd(Rat(i * (n - 1), N - 1), Rat(1, 2)))

zoom(mask, shape, resize) ==
    [j \in 0..(NPix(resize) - 1) |->
        mask[zoom_index(j \div resize[2], shape[1], resize[1]) * shape[2]
             + zoom_index(j % resize[2], shape[2], resize[2])]]

\* the loop of fill_holes_and_remove_small_masks from label i+1 on
RECURSIVE cleanup_loop(_, _, _, _, _, _)
cleanup_loop(masks, shape, slices, i, j, min_size) ==
    IF i >= Size(slices) THEN masks
    ELSE LET r == cleanup_iteration(masks, shape, slices[i + 1], i, j, min_size)
         IN  cleanup_loop(r.masks, shape, slices, i + 1, r.j, min_size)

fill_holes_and_remove_small_masks(masks0, shape, min_size) ==
    LET masks == format_labels(masks0)
    IN  cleanup_loop(masks, shape, find_objects_2D(masks, shape), 0, 0, min_size)

\* the shapes of the potential: one row, which div_rescale rejects, and
\* CM_Rows rows
CM_Rows == 2

CM_Width == 3

CM_Shapes == {<<1, CM_Width>>, <<CM_Rows, CM_Width>>}

\* potentials below mask_threshold - 1, between the two thresholds, above
\* mask_threshold
CM_Values == {R(-2), Rat(-1, 2), R(1)}

\* the potentials: any first row; every further row repeats the first one,
\* is below the low threshold or is above the high one
CM_Dists(shape) ==
    {[i \in 0..(NPix(shape) - 1) |->
         IF i < shape[2] \/ k[i \div shape[2]] = None THEN r[i % shape[2]]
         ELSE k[i \div shape[2]]] :
        r \in [0..(shape[2] - 1) -> CM_Values],
        k \in [1..(shape[1] - 1) -> {None, R(-2), R(1)}]}

\* the default mask_threshold, 0.0
mask_threshold == R(0)

\* the inds a caller passes: the pixels above mask_threshold
CM_Inds(dist) == inds_of({i \in DOMAIN dist : RLt(mask_threshold, dist[i])})

\* the resize shapes: one more row and one more column, and one row with a
\* column less
CM_Resizes(shape) == {<<shape[1] + 1, shape[2] + 1>>, <<1, shape[2] - 1>>}

CM_Init ==
    /\ cm_pc = "call"
    /\ cm_shape \in CM_Shapes
    /\ cm_dist \in CM_Dists(cm_shape)
    /\ cm_omni \in BOOLEAN
    /\ cm_cluster \in BOOLEAN
    /\ cm_cluster => cm_omni
    /\ cm_resize \in {None} \cup CM_Resizes(cm_shape)
    /\ cm_flow_thr \in {None, R(0), Rat(2, 5)}
    /\ cm_do_3D \in BOOLEAN
    /\ cm_do_3D => cm_flow_thr = Rat(2, 5)
    /\ cm_min_size \in {-1, 2}
    /\ cm_p_given \in BOOLEAN
    /\ cm_p_in \in IF cm_p_given THEN CM_Points(cm_shape) ELSE {None}
    /\ cm_inds \in {None, CM_Inds(cm_dist)}
    /\ cm_p_arr = cm_p_in
    /\ cm_p = cm_p_in
    /\ cm_mask = <<>>
    /\ cm_mshape = <<>>
    /\ cm_dP_ = <<>>
    /\ cm_log = <<>>
    /\ cm_err = "none"
    /\ FS_Idle
    /\ Adv_Idle
    /\ Filt_Idle
    /\ Cln_Idle
    /\ Rec_Idle
    /\ RT_Idle
    /\ Upd_Idle

cmInputs == <<cm_shape, cm_dist, cm_omni, cm_cluster, cm_resize, cm_flow_thr, cm_do_3D,
              cm_min_size, cm_p_given, cm_p_in>>

Stage(name, input, output) == [stage |-> name, input |-> input, output |-> output]

\* the thresholding; without foreground, the else branch and the return
cm_threshold ==
    /\ cm_pc = "call"
    /\ LET mask == foreground(cm_dist, cm_shape, mask_threshold, cm_omni, cm_inds)
       IN  IF any_true(mask)
           THEN /\ cm_mask' = mask
                /\ cm_mshape' = cm_shape
                /\ cm_pc' = "preprocess"
                /\ UNCHANGED cm_p
           ELSE /\ cm_mask' = empty_mask(cm_shape, cm_resize)
                /\ cm_mshape' = IF cm_resize # None THEN cm_resize ELSE cm_shape
                /\ cm_p' = placeholder_p
                /\ cm_pc' = "done"
    /\ UNCHANGED <<cmInputs, cm_inds, cm_p_arr, cm_dP_, cm_log, cm_err>>
    /\ UNCHANGED cmOthers

\* preprocess flows: div_rescale raises on an image with an axis of one
\* element
cm_preprocess ==
    /\ cm_pc = "preprocess"
    /\ IF cm_omni /\ div_rescale_raises(cm_shape)
       THEN /\ cm_pc' = "raised"
            /\ cm_err' = "ValueError"
            /\ UNCHANGED cm_dP_
       ELSE /\ cm_dP_' = preprocess(cm_mask, cm_omni)
            /\ cm_pc' = "advect"
            /\ UNCHANGED cm_err
    /\ UNCHANGED <<cmInputs, cm_inds, cm_p_arr, cm_mask, cm_mshape, cm_p, cm_log>>
    /\ UNCHANGED cmOthers

\* follow flows, unless p was passed in; then inds = np.nonzero(mask)
cm_follow_flows ==
    /\ cm_pc = "advect"
    /\ IF ~cm_p_given
       THEN \E ix \in selected_inds(cm_mask, cm_inds, cm_omni) :
                \E q \in follow_flows_results(cm_shape, ix) :
                    /\ cm_p' = q
                    /\ cm_inds' = ix
                    /\ cm_log' = Append(cm_log,
                           Stage("FlowAdvector", <<cm_dP_, cm_mask>>, q))
       ELSE /\ cm_inds' = nonzero_of(cm_mask)
            /\ UNCHANGED <<cm_p, cm_log>>
    /\ cm_pc' = "reconstruct"
    /\ UNCHANGED <<cmInputs, cm_p_arr, cm_mask, cm_mshape, cm_dP_, cm_err>>
    /\ UNCHANGED cmOthers

\* calculate masks: get_masks, or get_masks_cp, which first writes the grid
\* coordinates of the background pixels into p
cm_get_masks ==
    /\ cm_pc = "reconstruct"
    /\ IF cm_omni
       THEN \E r \in get_masks_results(cm_p, cm_inds, cm_mask, cm_shape, cm_cluster) :
                /\ cm_err' = r.err
                /\ cm_pc' = IF r.err = "none" THEN "filter" ELSE "raised"
                /\ cm_mask' = IF r.err = "none" THEN r.mask ELSE cm_mask
                /\ cm_log' = Append(cm_log, Stage("InstanceReconstructor", cm_p, r.mask))
                /\ UNCHANGED <<cm_p, cm_p_arr>>
       ELSE LET pinned == pin_background(cm_p, cm_mask, cm_shape)
                m      == get_masks_cp(pinned, cm_shape)
            IN  /\ cm_p' = pinned
                /\ cm_p_arr' = IF cm_p_given THEN pinned ELSE cm_p_arr
                /\ cm_mask' = m
                /\ cm_log' = Append(cm_log, Stage("InstanceReconstructor", cm_p, m))
                /\ cm_pc' = "filter"
                /\ UNCHANGED cm_err
    /\ UNCHANGED <<cmInputs, cm_inds, cm_mshape, cm_dP_>>
    /\ UNCHANGED cmOthers

\* flow thresholding: remove_bad_flow_masks, when the condition holds
cm_filter ==
    /\ cm_pc = "filter"
    /\ IF ~filter_applies(cm_mask, cm_do_3D, cm_flow_thr)
       THEN /\ cm_pc' = "resize"
            /\ UNCHANGED <<cm_mask, cm_log, cm_err>>
       ELSE IF filter_raises(cm_mask, cm_omni)
       THEN /\ cm_pc' = "raised"
            /\ cm_err' = "ValueError"
            /\ cm_log' = Append(cm_log, Stage("ConsistencyFilter", cm_mask, None))
            /\ UNCHANGED cm_mask
       ELSE \E out \in filter_results(cm_mask) :
                /\ cm_mask' = out
                /\ cm_log' = Append(cm_log, Stage("ConsistencyFilter", cm_mask, out))
                /\ cm_pc' = "unique"
                /\ UNCHANGED cm_err
    /\ UNCHANGED <<cmInputs, cm_inds, cm_p_arr, cm_mshape, cm_dP_, cm_p>>
    /\ UNCHANGED cmOthers

\* _,mask = np.unique(mask, return_inverse=True), which ends the flow
\* thresholding: the stage's output is the renumbered image
cm_unique ==
    /\ cm_pc = "unique"
    /\ cm_mask' = unique_inverse(cm_mask)
    /\ cm_log' = [cm_log EXCEPT ![Len(cm_log)].output = unique_inverse(cm_mask)]
    /\ cm_pc' = "resize"
    /\ UNCHANGED <<cmInputs, cm_inds, cm_p_arr, cm_mshape, cm_dP_, cm_p, cm_err>>
    /\ UNCHANGED cmOthers

\* if resize is not None: scipy.ndimage.zoom
cm_resize_step ==
    /\ cm_pc = "resize"
    /\ IF cm_resize # None
       THEN /\ cm_mask' = zoom(cm_mask, cm_mshape, cm_resize)
            /\ cm_mshape' = cm_resize
            /\ cm_log' = Append(cm_log,
                   Stage("resize", cm_mask, zoom(cm_mask, cm_mshape, cm_resize)))
       ELSE UNCHANGED <<cm_mask, cm_mshape, cm_log>>
    /\ cm_pc' = "cleanup"
    /\ UNCHANGED <<cmInputs, cm_inds, cm_p_arr, cm_dP_, cm_p, cm_err>>
    /\ UNCHANGED cmOthers

cm_cleanup_stale ==
    /\ cm_pc = "cleanup"
    /\ LET src == LET S == {k \in 1..Len(cm_log) : cm_log[k].stage = "InstanceReconstructor"}
                  IN  cm_log[CHOOSE k \in S : TRUE].output
           out == fill_holes_and_remove_small_masks(src, cm_shape, cm_min_size)
       IN  /\ cm_mask' = out
           /\ cm_log' = Append(cm_log, Stage("MaskCleanup", src, out))
    /\ cm_pc' = "renumber"
    /\ UNCHANGED <<cmInputs, cm_inds, cm_p_arr, cm_mshape, cm_dP_, cm_p, cm_err>>
    /\ UNCHANGED cmOthers

\* mask = fill_holes_and_remove_small_masks(mask, min_size=min_size, dim=dim)
cm_cleanup ==
    /\ cm_pc = "cleanup"
    /\ LET out == fill_holes_and_remove_small_masks(cm_mask, cm_mshape, cm_min_size)
       IN  /\ cm_mask' = out
           /\ cm_log' = Append(cm_log, Stage("MaskCleanup", cm_mask, out))
    /\ cm_pc' = "renumber"
    /\ UNCHANGED <<cmInputs, cm_inds, cm_p_arr, cm_mshape, cm_dP_, cm_p, cm_err>>
    /\ UNCHANGED cmOthers

\* fastremap.renumber(mask, in_place=True); return mask, p, tr
cm_renumber ==
    /\ cm_pc = "renumber"
    /\ cm_mask' = Renumber(cm_mask)
    /\ cm_log' = Append(cm_log, Stage("renumber", cm_mask, Renumber(cm_mask)))
    /\ cm_pc' = "done"
    /\ UNCHANGED <<cmInputs, cm_inds, cm_p_arr, cm_mshape, cm_dP_, cm_p, cm_err>>
    /\ UNCHANGED cmOthers

Next ==
    \/ cm_threshold
    \/ cm_preprocess
    \/ cm_follow_flows
    \/ cm_get_masks
    \/ cm_filter
    \/ cm_unique
    \/ cm_resize_step
    \/ cm_cleanup
    \/ cm_renumber

-----------------------------------------------------------------------------
(* The round trip of a label image: masks_to_flows, then follow_flows on   *)
(* its flow with the foreground as mask, then get_masks on the positions,  *)
(* composed the way compute_masks composes the last two.  The image is one *)
(* row with one instance of fewer than MinPoints pixels.  For these        *)
(* follow_flows returns before it reads a value of the flow and get_masks  *)
(* with nclasses = 3 reads neither the flow nor the potential, so the      *)
(* solver's arrays are carried as terms.  get_masks clusters when the      *)
(* caller asks for it or the diameter estimate is at most diam_threshold,  *)
(* and takes its skeleton branch otherwise, as for four pixels at an end   *)
(* of the row.  Larger instances need the values of the 2-D Eikonal        *)
(* potential, which are not rational.                                      *)

\* the longest instance of the round trip
RTMaxLen == MinPoints - 1

\* where the instance may start in the row
RTStarts(n) == {0, 1, RecWidth \div 2, RecWidth - n}

\* the label images: label 1 on n consecutive pixels from a on
RTImages ==
    UNION {{[x \in 0..(RecWidth - 1) |-> IF a <= x /\ x < a + n THEN 1 ELSE 0] :
               a \in RTStarts(n)} : n \in 1..RTMaxLen}

\* the foreground of a row, as pixels of the image of shape (1, RecWidth)
RTMask(m) == {<<0, x>> : x \in {i \in DOMAIN m : m[i] # 0}}

\* the arrays masks_to_flows returns for masks, unevaluated
masks_to_flows_of(masks) ==
    [mu   |-> [op |-> "masks_to_flows", out |-> "mu", masks |-> masks],
     dist |-> [op |-> "masks_to_flows", out |-> "dist", masks |-> masks]]

RT_Init ==
    /\ rt_pc = "call"
    /\ rt_in \in RTImages
    /\ rt_flow = <<>>
    /\ FS_Idle
    /\ Adv_Idle
    /\ Filt_Idle
    /\ CM_Idle
    /\ Cln_Idle
    /\ Rec_Idle
    /\ Upd_Idle

\* masks, dists, T, mu = masks_to_flows(labels)
rt_masks_to_flows ==
    /\ rt_pc = "call"
    /\ rt_flow' = masks_to_flows_of(rt_in)
    /\ rt_pc' = "solved"
    /\ UNCHANGED rt_in
    /\ UNCHANGED <<fsVars, advVars, filtVars, cmVars, clnVars, recVars, updVars>>

\* the call follow_flows(mu, mask=mask, niter=niter, interp=interp,
\* use_gpu=use_gpu, omni=True)
rt_follow_flows ==
    /\ rt_pc = "solved"
    /\ rt_pc' = "advecting"
    /\ adv_pc' = "call"
    /\ adv_shape' = <<1, RecWidth>>
    /\ adv_dP0' = rt_flow.mu
    /\ adv_mask' = RTMask(rt_in)
    /\ adv_niter' \in 0..AdvMaxIter
    /\ adv_interp' \in BOOLEAN
    /\ adv_gpu' \in BOOLEAN
    /\ adv_gpu' => adv_interp'
    /\ adv_omni' = TRUE
    /\ UNCHANGED <<adv_nan, adv_inds, adv_p, adv_q, adv_dP, adv_dPt0, adv_t, adv_j, adv_last>>
    /\ UNCHANGED <<rt_in, rt_flow>>
    /\ UNCHANGED <<fsVars, filtVars, cmVars, clnVars, recVars, updVars>>

\* the call get_masks(p, None, dist, mask, inds, 3, cluster=cluster) on what
\* follow_flows returned; every point of a one-row image has row
\* coordinate 0, and a point is given by its column coordinate
rt_get_masks ==
    /\ rt_pc = "advecting"
    /\ adv_pc = "done"
    /\ rt_pc' = "reconstructing"
    /\ rec_pc' = "call"
    /\ rec_nclasses' = 3
    /\ rec_cluster' \in BOOLEAN
    /\ rec_mask' = {x \in DOMAIN rt_in : rt_in[x] # 0}
    /\ rec_dist' = rt_flow.dist
    /\ rec_bd' = None
    /\ rec_p' = [x \in 0..(RecWidth - 1) |-> adv_p[<<0, x>>][2]]
    /\ rec_inds' = [k \in 1..Len(adv_inds) |-> adv_inds[k][2]]
    /\ UNCHANGED <<rec_newinds, rec_d, rec_db, rec_labels, rec_out, rec_err>>
    /\ UNCHANGED <<rt_in, rt_flow>>
    /\ UNCHANGED <<fsVars, advVars, filtVars, cmVars, clnVars, updVars>>

-----------------------------------------------------------------------------
(* update_torch on the pairs of one face-order group of one pixel.  In an   *)
(* image of N axes the group of face order o has up to 2^(o-1)*C(N,o)       *)
(* opposite pairs, and a[k] is the smaller potential of pair k after the    *)
(* neighbour validator zeroed the foreign ones.                             *)

\* the largest number of pairs in a group
UpdMaxPairs == 3

\* potentials are drawn from the halves up to UpdMaxT
UpdMaxT == 3

\* the face orders of a neighbour in up to three axes
UpdMaxOrder == 3

UpdValues == {Rat(k, 2) : k \in 0..(2 * UpdMaxT)}

Upd_Init ==
    /\ upd_pc = "call"
    /\ \E n \in 1..UpdMaxPairs : upd_a \in [1..n -> UpdValues]
    /\ upd_f2 \in 1..UpdMaxOrder
    /\ upd_sel = <<>>
    /\ FS_Idle
    /\ Adv_Idle
    /\ Filt_Idle
    /\ CM_Idle
    /\ Cln_Idle
    /\ Rec_Idle
    /\ RT_Idle

\* phi = update_torch(torch.cat(mins),fact)
update_torch_call ==
    /\ upd_pc = "call"
    /\ upd_sel' = update_select(upd_a, upd_f2)
    /\ upd_pc' = "done"
    /\ UNCHANGED <<upd_a, upd_f2>>
    /\ UNCHANGED <<fsVars, advVars, filtVars, cmVars, clnVars, recVars, rtVars>>

-----------------------------------------------------------------------------
(* Claims about the field solver, checked under SpecSolver.                *)

vars == <<fsVars, advVars, filtVars, cmVars, clnVars, recVars, rtVars, updVars>>

SolverNext == FS_Enter \/ FS_Relax \/ FS_Finish

SpecSolver == FS_Init /\ [][SolverNext]_vars

AdvectNext ==
    \/ follow_flows_enter
    \/ steps2D
    \/ steps3D
    \/ steps_interp_gpu
    \/ steps_interp_cpu
    \/ steps_return
    \/ steps_interp_return

SpecAdvect == Adv_Init /\ [][AdvectNext]_vars

FilterNext ==
    \/ flow_error_call
    \/ FS_Enter
    \/ FS_Relax
    \/ FS_Finish
    \/ flow_error_return
    \/ rbfm_remove
    \/ rbfm_again

SpecFilter == Filt_Init /\ [][FilterNext]_vars

Spec == CM_Init /\ [][Next]_vars

CleanupNext == fhrsm_format \/ fhrsm_iterate \/ fhrsm_return \/ fhrsm_again

SpecCleanup == Cln_Init /\ [][CleanupNext]_vars

ReconstructNext == gm_diameter \/ gm_dbscan \/ gm_snap \/ gm_write \/ gm_skeleton

SpecReconstruct == Rec_Init /\ [][ReconstructNext]_vars

RoundTripNext ==
    \/ rt_masks_to_flows
    \/ rt_follow_flows
    \/ follow_flows_enter
    \/ rt_get_masks
    \/ gm_diameter
    \/ gm_dbscan
    \/ gm_snap
    \/ gm_write
    \/ gm_skeleton

SpecRoundTrip == RT_Init /\ [][RoundTripNext]_vars

UpdateNext == update_torch_call

SpecUpdate == Upd_Init /\ [][UpdateNext]_vars

FS_Empty == \A i \in DOMAIN fs_in : fs_in[i] = 0

\* C2: the flow field returned by masks_to_flows and masks_to_flows_torch
\* (reflect-pad/unpad path included) has the shape of the label image and is
\* zero at every pixel whose label is 0.
C2_FlowZeroOnBackground ==
    fs_pc = "done" =>
        /\ DOMAIN fs_out.mu = DOMAIN fs_in
        /\ \A i \in DOMAIN fs_in : fs_in[i] = 0 => fs_out.mu[i] = R(0)

\* a finished reflect-padded call on an image with background next to a
\* pixel that carries a nonzero flow
C2_Witness ==
    /\ fs_pc = "done" /\ FS_Reflect /\ fs_pad > 0
    /\ \E i \in DOMAIN fs_in : fs_in[i] = 0
    /\ \E i \in DOMAIN fs_in : fs_out.mu[i] # R(0)

\* the label image a call on m hands to the solver: masks_to_flows puts the
\* labels in standard form first
RunLabels(m) == IF fs_entry = "masks_to_flows" THEN format_labels(m) ELSE m

\* the padding of a call on m
RunPad(m) == IF FS_Reflect THEN RInt(diameters(RunLabels(m))) ELSE 0

\* the number of relaxation iterations of a call on m
RunNiter(m) ==
    IF FS_Reflect
    THEN torch_niter(ReflectPad(RunLabels(m), RunPad(m)),
                     ReflectPad(edt(RunLabels(m)), RunPad(m)), fs_omni)
    ELSE torch_niter(RunLabels(m), edt(RunLabels(m)), fs_omni)

\* what a call on m returns, with the entry point and the mode of this call
RunOut(m) ==
    IF fs_entry = "masks_to_flows" THEN masks_to_flows(m, fs_omni)
    ELSE masks_to_flows_torch(m, edt(m), fs_omni)

\* the label images of a second call: any image, in standard form for
\* masks_to_flows_torch
SecondRuns == {m \in FS_Images : fs_entry = "masks_to_flows_torch" => m = format_labels(m)}

\* the pixel sets of the instances of m
InstancesOf(m) == {{i \in DOMAIN m : m[i] = k} : k \in {m[i] : i \in DOMAIN m} \ {0}}

\* the second call returns on the pixels S what this call returned
SameOn(S, m) ==
    LET out == RunOut(m)
    IN  \A i \in S : fs_out.mu[i] = out.mu[i] /\ fs_out.dist[i] = out.dist[i]

\* the call on m raises: int(diameters(masks)) of an image that the
\* standard form leaves without foreground
RunRaises(m) == FS_Reflect /\ IsNaN(diameters(RunLabels(m)))

AlikeFor(S, m) ==
    /\ S \in InstancesOf(RunLabels(fs_in))
    /\ S \in InstancesOf(RunLabels(m))
    /\ RunPad(m) = fs_pad
    /\ RunNiter(m) = fs_niter

C4_EmptyImageReturnsZeros ==
    FS_Empty =>
        /\ fs_err = "none"
        /\ fs_pc = "done" =>
              /\ fs_out.mu = [i \in DOMAIN fs_in |-> R(0)]
              /\ fs_out.dist = [i \in DOMAIN fs_in |-> PZero]

-----------------------------------------------------------------------------
(* Claims about the flow advector, checked under SpecAdvect.               *)

\* the position, in pixels, of point j of inds
PositionOf(j) ==
    IF adv_pc = "interp_gpu" THEN gpu_denormalize(adv_q[j], adv_shape)
    ELSE IF adv_pc = "interp_cpu" THEN adv_q[j]
    ELSE adv_p[adv_inds[j]]

Stepping == adv_pc \in {"steps2D", "steps3D", "interp_gpu", "interp_cpu"}

\* the flow field as passed, sampled at pos the way the path samples
SampleAsPassed(pos) ==
    IF \E k \in 1..Len(pos) : IsNaN(pos[k]) THEN [k \in 1..Len(pos) |-> NaN]
    ELSE IF adv_interp THEN map_coordinates(adv_dP0, adv_shape, pos)
    ELSE adv_dP0[cell_of(pos)]

\* C6: at step t of every advection path the displacement added to a point,
\* before clamping, is the flow field as passed to the call, sampled at the
\* point's current location and divided by 1 + t.
C6_DisplacementIsFlowOverStepFactor ==
    (adv_omni /\ adv_last.t >= 0) =>
        \A j \in DOMAIN adv_last.disp :
            adv_last.disp[j] =
                vec_scale(SampleAsPassed(adv_last.from[j]), Rat(1, step_factor(adv_last.t)))

InRange(pos) ==
    \A k \in 1..Len(pos) : RLe(R(0), pos[k]) /\ RLe(pos[k], R(adv_shape[k] - 1))

\* C7: after every advection step, in every path, each coordinate of every
\* advected point lies in [0, size_k - 1], and the new position is the
\* unclamped one cut off at the nearer end of that range (no wrap-around, no
\* reflection).
C7_PositionsStayInGrid ==
    (Stepping \/ adv_pc = "done") =>
        /\ \A j \in 1..Len(adv_inds) : InRange(PositionOf(j))
        /\ \A j \in DOMAIN adv_last.from :
               LET raw == vec_add(adv_last.from[j], adv_last.disp[j])
               IN  \A k \in 1..Len(raw) :
                       PositionOf(j)[k] =
                           IF RLt(raw[k], R(0)) THEN R(0)
                           ELSE IF RLt(R(adv_shape[k] - 1), raw[k]) THEN R(adv_shape[k] - 1)
                           ELSE raw[k]

\* C8 as stated: every call of follow_flows performs exactly niter steps,
\* however many points there are.
C8_ExactlyNiterSteps == adv_pc = "done" => adv_t = adv_niter

\* C8 amended: a call of follow_flows with at least MinPoints points returns
\* after exactly niter steps; a call with fewer points returns the initial
\* grid positions without performing any step.
C8_ExactlyNiterStepsWithEnoughPoints ==
    adv_pc = "done" =>
        IF Len(adv_inds) >= MinPoints
        THEN adv_t = adv_niter
        ELSE adv_t = 0 /\ adv_p = meshgrid(adv_shape)

\* a call that ran all of its steps, and they moved a point
C8_Witness ==
    /\ adv_pc = "done"
    /\ Len(adv_inds) >= MinPoints
    /\ adv_niter = AdvMaxIter
    /\ adv_t = adv_niter
    /\ adv_p # meshgrid(adv_shape)

-----------------------------------------------------------------------------
(* Claims about the consistency filter, checked under SpecFilter.          *)

\* the flow error of the instance with id k of the label image m, given the
\* flow mu the field solver computes from m: the mean over the instance's
\* pixels of the squared difference between mu and the given flow divided
\* by 5
InstanceError(m, mu, k) ==
    LET sq == [i \in DOMAIN m |->
                  LET e == RSub(mu[i], RDiv(filt_flows[i], R(5))) IN RMul(e, e)]
    IN  label_mean(sq, m, k)

\* the image the claim prescribes: the instances whose error is greater than
\* the threshold set to 0, every other pixel as it was
Filtered(m, mu) ==
    [i \in DOMAIN m |->
        IF m[i] # 0 /\ RLt(filt_thr, InstanceError(m, mu, m[i])) THEN 0 ELSE m[i]]

HasBackground(m) == \E i \in DOMAIN m : m[i] = 0

\* C9: remove_bad_flow_masks sets to 0 exactly the pixels of the instances
\* whose flow error is greater than the threshold and leaves every other
\* pixel unchanged, whatever the positive instance ids are.  Stated for flows
\* of the label image's shape and label images that have a background pixel:
\* on those the image the solver was given has the instances of the candidate
\* image, so the flow it returned is the candidate image's.
C9_RemovesExactlyBadInstances ==
    (/\ filt_pass = 1
     /\ filt_pc \in {"done", "raised"}
     /\ DOMAIN filt_flows = DOMAIN filt_in
     /\ HasBackground(filt_in)) =>
        /\ filt_err = "none"
        /\ format_labels(fs_in) = format_labels(filt_in)
        /\ filt_masks = Filtered(filt_in, fs_out.mu)

\* C10: a second application of remove_bad_flow_masks to its own output, with
\* the same flows and threshold, raises nothing and changes no pixel.
C10_RefilteringIsNoOp ==
    (filt_pass = 2 /\ filt_pc \in {"done", "raised"}) =>
        /\ filt_err = "none"
        /\ filt_masks = filt_out1

-----------------------------------------------------------------------------
(* Claims about compute_masks, checked under Spec.                         *)

\* no pixel of the potential field is above the foreground threshold
NoForeground == \A i \in DOMAIN cm_dist : ~RLt(mask_threshold, cm_dist[i])

\* C1: when no pixel of the potential passes the foreground threshold,
\* compute_masks returns at once an all-zero image of the resize shape if
\* one is given and of the shape of the potential otherwise; no stage is
\* invoked and p is the placeholder, not a computed point set.
C1_DegenerateCaseReturnsZeros ==
    (cm_pc # "call" /\ NoForeground) =>
        /\ cm_pc = "done"
        /\ cm_err = "none"
        /\ cm_mshape = IF cm_resize # None THEN cm_resize ELSE cm_shape
        /\ DOMAIN cm_mask = 0..(NPix(cm_mshape) - 1)
        /\ \A i \in DOMAIN cm_mask : cm_mask[i] = 0
        /\ cm_log = <<>>
        /\ cm_p = placeholder_p

\* a degenerate call with a resize shape, on a potential with a pixel
\* between the two hysteresis thresholds
C1_Witness ==
    /\ cm_pc = "done"
    /\ NoForeground
    /\ cm_omni
    /\ cm_resize # None
    /\ \E i \in DOMAIN cm_dist : RLt(RSub(mask_threshold, R(1)), cm_dist[i])

StageAt(name) == {k \in 1..Len(cm_log) : cm_log[k].stage = name}

\* the four stages appear in pipeline order, each at most once
StagesInOrder ==
    /\ \A name \in {"FlowAdvector", "InstanceReconstructor", "ConsistencyFilter",
                    "MaskCleanup"} : Cardinality(StageAt(name)) <= 1
    /\ \A a \in StageAt("FlowAdvector") :
           \A b \in StageAt("InstanceReconstructor") \cup StageAt("ConsistencyFilter")
                        \cup StageAt("MaskCleanup") : a < b
    /\ \A a \in StageAt("InstanceReconstructor") :
           \A b \in StageAt("ConsistencyFilter") \cup StageAt("MaskCleanup") : a < b
    /\ \A a \in StageAt("ConsistencyFilter") : \A b \in StageAt("MaskCleanup") : a < b

\* once the label image exists, the stages that must have run have run
StagesRan ==
    /\ cm_pc \in {"reconstruct", "filter", "resize", "cleanup", "renumber", "done", "raised"}
           => StageAt("FlowAdvector") # {}
    /\ cm_pc \in {"filter", "resize", "cleanup", "renumber", "done", "raised"}
           => StageAt("InstanceReconstructor") # {}
    /\ cm_pc \in {"renumber", "done"} => StageAt("MaskCleanup") # {}

\* the reconstruction works on the advector's points and the filter on the
\* reconstruction
EarlyStagesChained ==
    /\ \A b \in StageAt("InstanceReconstructor") :
           \A a \in StageAt("FlowAdvector") : cm_log[b].input = cm_log[a].output
    /\ \A b \in StageAt("ConsistencyFilter") :
           \A a \in StageAt("InstanceReconstructor") : cm_log[b].input = cm_log[a].output

\* the label image of the last stage that ran before the cleanup
BeforeCleanup ==
    IF StageAt("ConsistencyFilter") # {}
    THEN cm_log[CHOOSE k \in StageAt("ConsistencyFilter") : TRUE].output
    ELSE cm_log[CHOOSE k \in StageAt("InstanceReconstructor") : TRUE].output

\* the renumbering is the last operation on the label image
RenumberIsLast ==
    cm_pc = "done" =>
        /\ cm_log[Len(cm_log)].stage = "renumber"
        /\ cm_log[Len(cm_log)].output = cm_mask
        /\ \A c \in StageAt("MaskCleanup") :
               c = Len(cm_log) - 1 /\ cm_log[Len(cm_log)].input = cm_log[c].output

Pipeline == cm_log # <<>> /\ ~cm_p_given

\* C5 as stated: on a call with foreground and no precomputed points the
\* stages run in the order FlowAdvector, InstanceReconstructor,
\* ConsistencyFilter, MaskCleanup, each at most once and each on the output
\* of the previous one, and the final renumbering is the last operation that
\* changes the label image.
C5_StagesInOrderEachOnPrevious ==
    Pipeline =>
        /\ StagesInOrder
        /\ StagesRan
        /\ EarlyStagesChained
        /\ \A c \in StageAt("MaskCleanup") : cm_log[c].input = BeforeCleanup
        /\ RenumberIsLast

\* C5 amended: as above, except that when a resize shape is given the
\* cleanup works on the previous stage's output resampled to that shape.
C5_StagesInOrderCleanupAfterResize ==
    Pipeline =>
        /\ StagesInOrder
        /\ StagesRan
        /\ EarlyStagesChained
        /\ \A c \in StageAt("MaskCleanup") :
               cm_log[c].input = IF cm_resize # None THEN zoom(BeforeCleanup, cm_shape, cm_resize)
                                 ELSE BeforeCleanup
        /\ RenumberIsLast

\* a finished call in which all four stages ran, the filter removed an
\* instance, and the image was resized before the cleanup
C5_Witness ==
    /\ cm_pc = "done"
    /\ Pipeline
    /\ cm_resize # None
    /\ StageAt("FlowAdvector") # {}
    /\ StageAt("MaskCleanup") # {}
    /\ \E f \in StageAt("ConsistencyFilter") : cm_log[f].output # cm_log[f].input

-----------------------------------------------------------------------------
(* Claims about fill_holes_and_remove_small_masks, checked under           *)
(* SpecCleanup.                                                            *)

\* the instance ids of a label image
IdsOf(m) == {m[p] : p \in DOMAIN m} \ {0}

\* the pixels of instance k
PixelsOf(m, k) == {p \in DOMAIN m : m[p] = k}

\* C11: applying the cleanup to its own output, with the same min_size,
\* returns that output unchanged.
C11_CleanupIsIdempotent ==
    (cln_pc = "done" /\ cln_pass = 2) => cln_masks = cln_out1

\* C12: the image the cleanup returns uses exactly the ids 1..K for its K
\* instances, whatever min_size is.
C12_CleanupOutputIsDense ==
    cln_pc = "done" => IdsOf(cln_masks) = 1..Cardinality(IdsOf(cln_masks))

\* the instances of the input with at least min_size pixels
LargeIds == {k \in IdsOf(cln_in) : Cardinality(PixelsOf(cln_in, k)) >= cln_min_size}

\* C13: with min_size > 0 the instances of the input with at least min_size
\* pixels are kept, each under an id of its own, the others are removed, and
\* every instance of the output has at least min_size pixels.
C13_RemovesExactlySmallInstances ==
    (cln_pc = "done" /\ cln_pass = 1 /\ cln_min_size > 0) =>
        /\ \A k \in LargeIds :
               \E L \in IdsOf(cln_out1) : PixelsOf(cln_in, k) \subseteq PixelsOf(cln_out1, L)
        /\ \A k, l \in LargeIds :
               k # l => \A p \in PixelsOf(cln_in, k), q \in PixelsOf(cln_in, l) :
                            cln_out1[p] # cln_out1[q]
        /\ Cardinality(IdsOf(cln_out1)) = Cardinality(LargeIds)
        /\ \A L \in IdsOf(cln_out1) : Cardinality(PixelsOf(cln_out1, L)) >= cln_min_size

-----------------------------------------------------------------------------
(* Claims about get_masks, checked under SpecReconstruct.                  *)

\* the points DBSCAN classified as noise, and the others
NoisePoints == {k \in 1..Len(rec_db) : rec_db[k] = -1}

ClusteredPoints == {k \in 1..Len(rec_db) : rec_db[k] # -1}

\* j is a clustered point nearest to point k
NearestClustered(j, k) ==
    /\ j \in ClusteredPoints
    /\ \A i \in ClusteredPoints :
           RLe(RSq(RSub(rec_newinds[k], rec_newinds[j])),
               RSq(RSub(rec_newinds[k], rec_newinds[i])))

\* C14: once the clustering has classified one or more points as noise and
\* at least one point as clustered, get_masks returns, every noise point's
\* pixel carries the label of a clustered point nearest to it, and no
\* foreground pixel is left with label 0.
C14_NoiseTakesNearestLabel ==
    (rec_pc \in {"done", "raised"} /\ NoisePoints # {} /\ ClusteredPoints # {}) =>
        /\ rec_pc = "done"
        /\ \A k \in NoisePoints :
               \E j \in ClusteredPoints :
                   NearestClustered(j, k) /\ rec_out[rec_inds[k]] = rec_db[j] + 1
        /\ \A x \in rec_mask : rec_out[x] # 0

\* C15: on an all-background image the diameter estimate is never NaN and the
\* call ends in an exception.
C15_EmptyDiameterIsRejected ==
    (rec_mask = {} /\ rec_pc # "call") => (~IsNaN(rec_d) /\ rec_pc = "raised")

-----------------------------------------------------------------------------
(* A further claim about remove_bad_flow_masks, checked under SpecFilter.  *)

\* C16: when the flow field's shape differs from the label image's, the
\* filter ends in a failure that names the shape mismatch, and the label
\* image is as it was passed.
C16_ShapeMismatchIsNamed ==
    (filt_pc # "call" /\ filt_pass = 1 /\ DOMAIN filt_flows # DOMAIN filt_in) =>
        /\ filt_pc = "raised"
        /\ filt_err = "shape mismatch"
        /\ filt_masks = filt_in

-----------------------------------------------------------------------------
(* Further claims about follow_flows, checked under SpecAdvect.            *)

\* C18: within one step of steps2D and steps3D the displacement of a point
\* is determined by the cell it was in at the start of the step and the flow
\* as passed, so points that start the step in the same cell are displaced
\* alike, in whatever order they are processed.
C18_StepIsIndependentPerPoint ==
    (~adv_interp /\ adv_last.t >= 0) =>
        \A j, k \in DOMAIN adv_last.from :
            cell_of(adv_last.from[j]) = cell_of(adv_last.from[k]) =>
                adv_last.disp[j] = adv_last.disp[k]

-----------------------------------------------------------------------------
(* C19: in every relaxation iteration of the field solver, in both modes,  *)
(* the new potential of each foreground pixel is computed from the         *)
(* potentials all pixels had when the iteration began (in point-source     *)
(* mode after this iteration's increment of the centre pixels); no update  *)
(* reads a potential written in the same iteration.                        *)

\* the potentials an iteration starts from, with the seed increment
Seeded(T) ==
    [q \in DOMAIN T |->
        IF ~fs_omni /\ q \in torch_centers(fs_masks, fs_omni)
        THEN RAdd(T[q], R(1)) ELSE T[q]]

\* the update of pixel i read from the array Told alone
UpdateFrom(Told, i) ==
    LET G == ZeroPad(fs_masks)
    IN  IF fs_omni THEN eikonal_update_torch(G, Told, i)
        ELSE RDiv(RSum([k \in 1..Len(steps) |-> Tneigh(G, Told, i, k)],
                       1..Len(steps)),
                  R(Len(steps)))

C19_RelaxReadsPreviousIteration ==
    [][(fs_pc = "relax" /\ fs_t' = fs_t + 1) =>
        \A i \in DOMAIN fs_T :
            ZeroPad(fs_masks)[i] # 0 => fs_T'[i] = UpdateFrom(Seeded(fs_T), i)]_vars

\* a later iteration on a field in which two adjacent pixels of one instance
\* both carry a potential, so that an update written early would be read
C19_Witness ==
    /\ fs_pc = "relax"
    /\ fs_t >= 2
    /\ \E i \in DOMAIN fs_T :
          /\ i + 1 \in DOMAIN fs_T
          /\ ZeroPad(fs_masks)[i] # 0
          /\ ZeroPad(fs_masks)[i + 1] = ZeroPad(fs_masks)[i]
          /\ RSign(fs_T[i]) > 0
          /\ RSign(fs_T[i + 1]) > 0

-----------------------------------------------------------------------------
(* C20: for the same flow field, points, iteration count and flags, the    *)
(* tensor branch and the sequential branch of steps_interp apply the same  *)
(* update rule and so produce the same sequence of point positions.        *)

\* the positions the sequential branch holds after t iterations, from the
\* inputs of the call
RECURSIVE cpu_positions(_)
cpu_positions(t) ==
    IF t <= 0 THEN [j \in 1..Len(adv_inds) |-> meshgrid(adv_shape)[adv_inds[j]]]
    ELSE LET q == cpu_positions(t - 1)
             raw(j) == map_coordinates(adv_dP0, adv_shape, q[j])
             dPt(j) == IF adv_omni
                       THEN vec_scale(raw(j), Rat(1, step_factor(t - 1)))
                       ELSE raw(j)
         IN  [j \in 1..Len(adv_inds) |->
                 clamp_pos(vec_add(q[j], dPt(j)), adv_shape)]

\* after every iteration of the tensor branch its points are where the
\* sequential branch has them after as many iterations
C20_BranchesAgree ==
    adv_pc = "interp_gpu" =>
        \A j \in 1..Len(adv_inds) :
            gpu_denormalize(adv_q[j], adv_shape) = cpu_positions(adv_t)[j]

-----------------------------------------------------------------------------
(* C17: for a label image that holds exactly one convex instance, the      *)
(* round trip through masks_to_flows, follow_flows and get_masks returns a *)
(* label image with exactly one instance, and that instance covers at      *)
(* least 95% of the pixels of the original one.                            *)

\* the round trip has come to its end, by a return or by an exception
RoundTripOver == rt_pc = "reconstructing" /\ rec_pc \in {"done", "raised"}

C17_RoundTripKeepsInstance ==
    RoundTripOver =>
        /\ rec_pc = "done"
        /\ Cardinality(IdsOf(rec_out)) = 1
        /\ \A k \in IdsOf(rec_out) :
               100 * Cardinality(PixelsOf(rec_out, k) \cap PixelsOf(rt_in, 1))
                   >= 95 * Cardinality(PixelsOf(rt_in, 1))

-----------------------------------------------------------------------------
(* Claims about get_masks, continued.                                      *)

\* C21: get_masks clusters (DBSCAN) if and only if the estimated mean
\* diameter is at most diam_threshold or the cluster flag was passed as True;
\* in every other case it labels the connected skeleton.
C21_ClusterIffSmallOrForced ==
    [][(rec_pc = "call" /\ rec_pc' # "call") =>
        LET small == ~IsNaN(rec_d') /\ RLe(rec_d', R(diam_threshold))
        IN  /\ (rec_cluster \/ small) => rec_pc' = "dbscan"
            /\ ~(rec_cluster \/ small) => rec_pc' = "skeleton"]_vars

\* a call on objects below the threshold that clustered and returned
C21_Witness ==
    /\ rec_pc = "done"
    /\ rec_db # <<>>
    /\ RLe(rec_d, R(diam_threshold))
    /\ ~RLe(rec_d, R(diam_threshold \div 2))

\* the skeleton branch has come to its end, by a return or by an exception
SkeletonOver == rec_pc \in {"done", "raised"} /\ ~rec_cluster

\* C22: in the skeleton branch the edge correction erases the skeleton
\* cells the boundary field flags whenever a boundary field is supplied,
\* and uses the morphological opening only when none is supplied; in both
\* cases no error is raised.
C22_EdgeCorrectionFollowsBoundaryField ==
    SkeletonOver =>
        /\ rec_pc = "done"
        /\ rec_err = "none"
        /\ rec_out = skeleton_labels(rec_newinds, rec_inds, rec_bd, RecWidth,
                                     IF DOMAIN rec_bd = {} THEN 3 ELSE 4)

-----------------------------------------------------------------------------
(* Claims about the field solver, continued.                               *)

\* a call that ran the relaxation and returned
Relaxed23 == fs_pc = "done" /\ fs_T # <<>>

\* the flow before normalisation, per foreground pixel of the padded image
RawMu == mu_torch(ZeroPad(fs_masks), fs_T, fs_omni)

\* both neighbours of pixel i along the axis belong to its instance
SamePair(i) ==
    LET G == ZeroPad(fs_masks)
    IN  G[i - 1] = G[i] /\ G[i + 1] = G[i]

\* the potential of pixel n as pixel i's instance sees it
PotentialSeenBy(i, n) ==
    IF ZeroPad(fs_masks)[n] = ZeroPad(fs_masks)[i] THEN fs_T[n] ELSE R(0)

\* C23 as stated: the flow before normalisation is half the difference of
\* the potentials of the +1 and -1 neighbours, and a pair with a member that
\* is background or of another instance is not differenced at all.
C23_SameInstancePairsOnly ==
    Relaxed23 =>
        \A k \in DOMAIN RawMu :
            LET i == Nonzero(ZeroPad(fs_masks))[k]
            IN  IF SamePair(i)
                THEN RawMu[k].hi = fs_T[i + 1] /\ RawMu[k].lo = fs_T[i - 1]
                ELSE RawMu[k].hi = RawMu[k].lo

\* C23 amended: the flow before normalisation is half the difference of the
\* +1 and -1 neighbours' potentials, with a neighbour that is background or
\* of another instance entering as 0; the returned flow has its sign.
C23_ForeignNeighboursCountAsZero ==
    Relaxed23 =>
        \A k \in DOMAIN RawMu :
            LET i == Nonzero(ZeroPad(fs_masks))[k]
                o == i - 1 - fs_pad
            IN  /\ RawMu[k].hi = PotentialSeenBy(i, i + 1)
                /\ RawMu[k].lo = PotentialSeenBy(i, i - 1)
                /\ o \in DOMAIN fs_out.mu =>
                       fs_out.mu[o] = R(RSign(RSub(PotentialSeenBy(i, i + 1),
                                                   PotentialSeenBy(i, i - 1))))

\* a pixel between a pixel of its own instance and a pixel of another one,
\* both with a potential
C23_Witness ==
    /\ Relaxed23
    /\ \E i \in DOMAIN fs_T :
          LET G == ZeroPad(fs_masks)
          IN  /\ G[i] # 0
              /\ G[i - 1] = G[i]
              /\ G[i + 1] \notin {0, G[i]}
              /\ RSign(fs_T[i - 1]) > 0
              /\ RSign(fs_T[i + 1]) > 0

\* an iteration of the relaxation in point-source mode
HeatStep == fs_pc = "relax" /\ fs_t' = fs_t + 1 /\ ~fs_omni

\* the cells of pixel i's neighbourhood that belong to its instance
SameInstanceCells(i) ==
    {n \in {i - 1, i, i + 1} : ZeroPad(fs_masks)[n] = ZeroPad(fs_masks)[i]}

\* the sum of T over the set S of pixels
RECURSIVE SumOver(_, _)
SumOver(T, S) ==
    IF S = {} THEN R(0)
    ELSE LET n == CHOOSE x \in S : TRUE
         IN  RAdd(T[n], SumOver(T, S \ {n}))

SeedPixels == torch_centers(fs_masks, fs_omni)

\* C24 as stated: in point-source mode an iteration sets every foreground
\* pixel to the mean over its same-instance neighbours, the divisor being
\* their number, and increments the seed pixel after that.
C24_MeanOverSameInstanceThenSeed ==
    [][HeatStep =>
        \A i \in DOMAIN fs_T :
            ZeroPad(fs_masks)[i] # 0 =>
                LET m == RDiv(SumOver(fs_T, SameInstanceCells(i)),
                              R(Cardinality(SameInstanceCells(i))))
                IN  fs_T'[i] = IF i \in SeedPixels THEN RAdd(m, R(1)) ELSE m]_vars

\* C24 amended: an iteration first increments the seed pixel and then sets
\* every foreground pixel to the sum of the potentials of its same-instance
\* neighbours divided by the size 3^N of the whole neighbourhood.
C24_SeedThenSumOverFullStencil ==
    [][HeatStep =>
        LET S == [q \in DOMAIN fs_T |->
                     IF q \in SeedPixels THEN RAdd(fs_T[q], R(1)) ELSE fs_T[q]]
        IN  \A i \in DOMAIN fs_T :
                ZeroPad(fs_masks)[i] # 0 =>
                    fs_T'[i] = RDiv(SumOver(S, SameInstanceCells(i)),
                                    R(Len(steps)))]_vars

\* a later iteration in point-source mode on an instance with an edge pixel
\* that already carries a potential
C24_Witness ==
    /\ fs_pc = "relax" /\ ~fs_omni /\ fs_t >= 2
    /\ \E i \in DOMAIN fs_T :
          /\ ZeroPad(fs_masks)[i] # 0
          /\ Cardinality(SameInstanceCells(i)) < 3
          /\ RSign(fs_T[i]) > 0

-----------------------------------------------------------------------------
(* Claims about the Eikonal update, checked under SpecUpdate.               *)

\* the sum of the squared differences of the first k pair minima
Spread(a, k) ==
    LET P == {q \in (1..k) \X (1..k) : q[1] < q[2]}
        sq == [q \in P |-> RMul(RSub(a[q[1]], a[q[2]]), RSub(a[q[1]], a[q[2]]))]
    IN  RSum(sq, P)

\* the first k pairs constrain the front: k*f**2 is at least their spread
Constrains(k) == RSign(RSub(R(k * upd_f2), Spread(upd_a, k))) >= 0

\* (ad + sqrt(rd)) / d is 1
PhiIsOne ==
    LET r == RSub(R(upd_sel.d), upd_sel.ad)
    IN  RSign(r) >= 0 /\ upd_sel.rd = RMul(r, r)

\* C25: a group with a negative radicand contributes the factor 1, and the
\* update takes no square root of a negative radicand and divides by no zero
\* pair count.
C25_NegativeRadicandGivesIdentity ==
    upd_pc = "done" =>
        /\ upd_sel.d >= 1
        /\ RSign(upd_sel.rd) >= 0
        /\ (\E k \in 1..Len(upd_a) : ~Constrains(k)) => PhiIsOne

\* C25 amended: the update solves the quadratic over the first d pairs of the
\* group, d being the largest number of leading pairs whose radicand is not
\* negative; d is at least 1, and the radicand it takes the root of is not
\* negative.
C25_FallsBackToLeadingPairs ==
    upd_pc = "done" =>
        /\ upd_sel.d >= 1
        /\ RSign(upd_sel.rd) >= 0
        /\ \A k \in 1..Len(upd_a) : Constrains(k) <=> k <= upd_sel.d
        /\ upd_sel.ad = RSum(upd_a, 1..upd_sel.d)
        /\ upd_sel.rd = RSub(R(upd_sel.d * upd_f2), Spread(upd_a, upd_sel.d))

\* a group of three pairs whose third radicand is negative, solved over its
\* first two pairs
C25_Witness ==
    /\ upd_pc = "done"
    /\ Len(upd_a) = 3 /\ upd_sel.d = 2
    /\ ~Constrains(3)
    /\ ~PhiIsOne

-----------------------------------------------------------------------------
(* A further claim about the clustering branch, checked under               *)
(* SpecReconstruct.                                                         *)

\* every one of the n_neighbors points nearest to noise point k is noise:
\* each clustered point has that many noise points strictly nearer to k
NoiseAllAround(k) ==
    /\ k \in NoisePoints
    /\ \A j \in ClusteredPoints :
           Cardinality({i \in NoisePoints :
               RLt(RSq(RSub(rec_newinds[k], rec_newinds[i])),
                   RSq(RSub(rec_newinds[k], rec_newinds[j])))}) >= n_neighbors

\* C26: a call that clustered, with a noise point all of whose nearest
\* neighbours are noise, returns, and that point's pixel has label 0.
C26_IsolatedNoiseKeepsBackground ==
    (rec_pc \in {"done", "raised"} /\ rec_db # <<>>) =>
        \A k \in 1..Len(rec_db) :
            NoiseAllAround(k) => rec_pc = "done" /\ rec_out[rec_inds[k]] = 0

-----------------------------------------------------------------------------
(* Further claims about compute_masks, checked under Spec.                  *)

\* the step from the filtered label image to the renumbered one
UniqueStep == cm_pc = "unique" /\ cm_pc' = "resize"

\* C27: the renumbering after the flow thresholding keeps the background: a
\* pixel is 0 after it exactly when it was 0 before it, also in an image
\* without a background pixel.
C27_RenumberingKeepsBackground ==
    [][UniqueStep =>
        \A i \in DOMAIN cm_mask : cm_mask'[i] = 0 <=> cm_mask[i] = 0]_vars

-----------------------------------------------------------------------------
(* A further claim about fill_holes_and_remove_small_masks, checked under   *)
(* SpecCleanup.                                                             *)

\* one iteration of the loop, for the instance with id cln_i + 1
CleanupStep == cln_pc = "loop" /\ cln_pc' = "loop" /\ cln_i' = cln_i + 1

\* C28: an iteration of the cleanup changes no pixel of an instance other
\* than the one it works on: hole filling writes to background pixels only.
C28_HoleFillingSparesOtherInstances ==
    [][CleanupStep =>
        \A p \in DOMAIN cln_masks :
            cln_masks[p] \notin {0, cln_i + 1} => cln_masks'[p] = cln_masks[p]]_vars

\* C29: when compute_masks has returned or raised, the array p the caller
\* passed holds the values it held at the call, in omni and in legacy mode.
C29_InputsAreLeftUnchanged ==
    (cm_pc \in {"done", "raised"} /\ cm_p_given) => cm_p_arr = cm_p_in

\* what the reconstructor returned in this call
Reconstructed == cm_log[CHOOSE k \in StageAt("InstanceReconstructor") : TRUE].output

\* the run is not 3D, the reconstruction has an instance and the threshold
\* is a number greater than 0
FilterWanted ==
    /\ ~cm_do_3D
    /\ IdsOf(Reconstructed) # {}
    /\ cm_flow_thr # None
    /\ RSign(cm_flow_thr) > 0

\* the resize shape is no smaller than the image along any axis
Enlarging == \A k \in 1..Len(cm_shape) : cm_resize[k] >= cm_shape[k]

\* C30 as stated: the flow thresholding is applied only when the run is not
\* 3D, the reconstruction has an instance and the threshold is a number
\* greater than 0; otherwise the cleanup receives the image the
\* reconstructor returned, resized when a resize is asked for, with every
\* instance of it.
C30_FilterOnlyWhenWanted ==
    StageAt("InstanceReconstructor") # {} =>
        /\ StageAt("ConsistencyFilter") # {} => FilterWanted
        /\ ~FilterWanted =>
               \A c \in StageAt("MaskCleanup") :
                   /\ cm_log[c].input = IF cm_resize # None
                                        THEN zoom(Reconstructed, cm_shape, cm_resize)
                                        ELSE Reconstructed
                   /\ IdsOf(cm_log[c].input) = IdsOf(Reconstructed)

\* C30 amended: the flow thresholding is applied only in that case; otherwise
\* the cleanup receives the reconstructor's image itself when no resize is
\* asked for and its nearest-neighbour resampling to the resize shape when
\* one is.  The resampled image has no instance the reconstructor did not
\* return, and has all of them when the resize shape is no smaller than the
\* image along any axis.
C30_FilterOnlyWhenWantedResizeMayDrop ==
    StageAt("InstanceReconstructor") # {} =>
        /\ StageAt("ConsistencyFilter") # {} => FilterWanted
        /\ ~FilterWanted =>
               \A c \in StageAt("MaskCleanup") :
                   /\ cm_log[c].input = IF cm_resize # None
                                        THEN zoom(Reconstructed, cm_shape, cm_resize)
                                        ELSE Reconstructed
                   /\ IdsOf(cm_log[c].input) \subseteq IdsOf(Reconstructed)
                   /\ (cm_resize = None \/ Enlarging) =>
                          IdsOf(cm_log[c].input) = IdsOf(Reconstructed)

\* a finished run that went to the cleanup unfiltered, through a resize to a
\* smaller shape that lost an instance of the reconstruction
C30_Witness ==
    /\ cm_pc = "done"
    /\ StageAt("InstanceReconstructor") # {}
    /\ ~FilterWanted
    /\ cm_resize # None
    /\ ~Enlarging
    /\ StageAt("ConsistencyFilter") = {}
    /\ \E c \in StageAt("MaskCleanup") :
           /\ IdsOf(cm_log[c].input) # {}
           /\ IdsOf(cm_log[c].input) # IdsOf(Reconstructed)

=============================================================================
